---- MODULE Spec2Model ----
(***************************************************************************)
(* jobu: cron dispatcher, worker pool / executor, admin retry and the      *)
(* transaction layer, modelled as state machines over the job_executions   *)
(* table.                                                                  *)
(*                                                                         *)
(* Spec    : the worker side: several executor tasks, one dispatcher and   *)
(*           the admin retry action on one job_executions table.           *)
(* SpecEmit: the dispatcher side: several dispatcher replicas, one         *)
(*           executor task and the admin retry action on the same table.   *)
(* SpecRun : a worker pool whose handlers succeed, under fair scheduling.  *)
(* SpecTx  : one call of a function wrapped over several databases (or a   *)
(*           ManagedTransaction block) from entry to exit.                 *)
(* SpecPool: concurrent calls of a wrapped function on one connection      *)
(*           pool, with the per-task ambient bindings.                     *)
(* SpecRO  : calls of the operations of a TransactionContext, read-only    *)
(*           or not, SQLite's or MySQL's.                                  *)
(* SpecSched: the timing of one dispatcher's polls against the scheduled   *)
(*           instants of a definition, under fair scheduling.              *)
(* SpecLoop: one iteration of the dispatcher's loop over its definitions.  *)
(***************************************************************************)
EXTENDS Integers, Sequences, FiniteSets, TLC

(***************************************************************************)
(* Bounds of the model.                                                    *)
(***************************************************************************)
MaxTime == 1
MaxAdminRetries == 1
\* SpecTx: databases a wrapped function may span
NumDbs == 3
\* SpecPool: connections of the pool, tasks calling a wrapped function
pool_size == 2
PoolTasks == 4
\* SpecSched: scheduled instants of the every-minute definition that the
\* clock runs through
MaxInstants == 6
\* SpecLoop: definitions in the list one iteration loads
MaxJobs == 3
\* Spec: executor tasks, dispatcher replicas, rows the dispatchers may emit,
\* admin retry actions
\* jobinfo: the keyword JobInfo takes for the handler parameters; Spec and
\* SpecEmit run with a JobInfo that takes what the worker pool passes
WorkDeployment ==
  [tasks |-> 3, dispatchers |-> 1, rows |-> 1, retries |-> MaxAdminRetries,
   jobinfo |-> "handler_params"]
\* SpecEmit: the same, for the dispatcher side
EmitDeployment ==
  [tasks |-> 1, dispatchers |-> 2, rows |-> 2, retries |-> 1,
   jobinfo |-> "handler_params"]
\* SpecWorker: WorkerConfig.pool_size and claim_batch_size go up to these, and
\* the table holds up to WorkerRows executions when the pool starts
MaxWorkers == 2
MaxBatch == 2
WorkerRows == 3
\* SpecLife: a sleep of the dispatcher lasts up to MaxSleepTicks ticks of the
\* clock, and the dispatcher runs up to MaxIterations iterations
MaxSleepTicks == 2
MaxIterations == 3

\* SpecGate: cron_jobs holds GateJobs definitions and the dispatcher runs
\* GateIterations iterations
GateJobs == 2
GateIterations == 2

\* SpecSleep: _calculate_next_sleep is called with up to SleepJobs definitions
SleepJobs == 2

\* SpecParams: handler parameters have up to MaxParamKeys keys
MaxParamKeys == 2

\* SpecQueue: messages the broker delivers to one QueueDispatcher
MaxMessages == 3

\* SpecFail: max_retry of the definition goes from 0 up to this, and the
\* dispatcher emits up to FailRows executions
MaxRetryBudget == 3
FailRows == 2

\* SpecTerm: executor tasks of the worker pools, and executions emitted
TermTasks == 2
TermRows == 1

\* SpecFault: executor tasks of the worker pools
FaultTasks == 2

\* SpecExhaust: PENDING executions the pool starts with
ExhaustRows == 1
\* SpecRun: a worker pool whose handlers succeed, with either JobInfo
RunTasks == 2
RunRows == 2
RunDeployments ==
  {[tasks |-> RunTasks, dispatchers |-> 1, rows |-> RunRows, retries |-> 0,
    jobinfo |-> f] : f \in {"handler_params", "params"}}

(***************************************************************************)
(* Cron definitions the model runs with (CronJob rows of cron_jobs):       *)
(*   allow_overlap = false, max_retry = 3  (worker_test fixture)           *)
(*   allow_overlap = true,  max_retry = 2  (scenario S4)                   *)
(***************************************************************************)
CronDefs ==
  {[allow_overlap |-> FALSE, max_retry |-> 3],
   [allow_overlap |-> TRUE, max_retry |-> 2]}

\* ExecutionStatus
PENDING == "PENDING"
RUNNING == "RUNNING"
SUCCESS == "SUCCESS"
FAILED == "FAILED"
TIMEOUT == "TIMEOUT"

ExecutionStatus == {PENDING, RUNNING, SUCCESS, FAILED, TIMEOUT}

VARIABLES
  cron,     \* cron_jobs: job id -> definition
  scope,    \* how many rows and admin retries this run goes up to, and the
            \* JobInfo class the worker runs with
  now,      \* wall clock, in scheduled instants (minutes)
  table,    \* job_executions: sequence of rows, index = id
  lock,     \* writer of an open multi-statement write transaction (0: none)
  disp,     \* per dispatcher replica: position in _process_cron_job
  task,     \* per executor task: position in Executor.execute and its JobInfo
  nAdmin,   \* admin retry actions taken so far
  hist,     \* per row: what has happened to it (observation only)
  last,     \* what the call that ended in this step returned or raised,
            \* with the branch that returned it (observation only)
  tx,       \* state of the transaction-layer call (SpecTx)
  pool,     \* one database: its connection pool and the tasks using it (SpecPool)
  ro,       \* one statement issued through a TransactionContext (SpecRO)
  sch,      \* one dispatcher's clock, sleep and emitted instants (SpecSched)
  loop,     \* one iteration of the dispatcher over its definitions (SpecLoop)
  wpool,    \* one WorkerPool object: its loop, stop flag and running tasks
  dlife,    \* one Dispatcher object: its start / stop calls and main loop
  queue     \* one QueueDispatcher: the messages of its adapter and its loop

\* the scheduler: job_executions and the actors working on it
sched == <<cron, scope, now, table, lock, disp, task, nAdmin, hist, last>>

vars == <<sched, tx, pool, ro, sch, loop, wpool, dlife, queue>>

(***************************************************************************)
(* SQL statements on job_executions (dispatcher.sql, worker.sql and        *)
(* admin.sql), as operators from a table to a table.                       *)
(***************************************************************************)
Ids(tbl) == 1..Len(tbl)

NewRow(j, s) ==
  [job_id |-> j, scheduled_time |-> s, status |-> PENDING, retry_count |-> 0,
   started_at |-> FALSE, finished_at |-> FALSE, error_message |-> "none",
   result |-> FALSE]

\* SELECT ... WHERE job_id = :job_id AND scheduled_time = :scheduled_time
check_execution_exists(tbl, j, s) ==
  {i \in Ids(tbl) : tbl[i].job_id = j /\ tbl[i].scheduled_time = s}

\* INSERT ... ON CONFLICT (job_id, scheduled_time) DO UPDATE: the row that is
\* there is made a new one
create_execution_or_replace(tbl, j, s) ==
  IF check_execution_exists(tbl, j, s) # {}
  THEN [i \in Ids(tbl) |->
          IF i \in check_execution_exists(tbl, j, s) THEN NewRow(j, s) ELSE tbl[i]]
  ELSE Append(tbl, NewRow(j, s))

\* INSERT ... ON CONFLICT (job_id, scheduled_time) DO NOTHING
create_execution_if_not_exists(tbl, j, s) ==
  IF check_execution_exists(tbl, j, s) # {} THEN tbl ELSE Append(tbl, NewRow(j, s))

\* SELECT 1 ... WHERE job_id = :job_id AND status IN ('PENDING', 'RUNNING')
has_incomplete_execution(tbl, j) ==
  \E i \in Ids(tbl) : tbl[i].job_id = j /\ tbl[i].status \in {PENDING, RUNNING}

\* SELECT ... WHERE status = 'PENDING' (joined to cron_jobs)
get_pending_executions(tbl) == {i \in Ids(tbl) : tbl[i].status = PENDING}

\* UPDATE ... SET status = 'RUNNING', started_at = now WHERE id = ? AND status = 'PENDING'
claim_execution(tbl, id) ==
  IF tbl[id].status = PENDING
  THEN [tbl EXCEPT ![id].status = RUNNING, ![id].started_at = TRUE]
  ELSE tbl

\* rows affected by claim_execution
claim_affected_rows(tbl, id) == IF tbl[id].status = PENDING THEN 1 ELSE 0

\* UPDATE ... SET status = 'SUCCESS', finished_at = now, result = :result
complete_execution(tbl, id) ==
  [tbl EXCEPT ![id].status = SUCCESS, ![id].finished_at = TRUE, ![id].result = TRUE]

\* UPDATE ... SET status = 'FAILED', finished_at = now, error_message = :error_message,
\*                retry_count = retry_count + 1
fail_execution(tbl, id) ==
  [tbl EXCEPT ![id].status = FAILED, ![id].finished_at = TRUE,
              ![id].error_message = "failed",
              ![id].retry_count = tbl[id].retry_count + 1]

\* UPDATE ... SET status = 'TIMEOUT', finished_at = now, error_message = '... timed out',
\*                retry_count = retry_count + 1
timeout_execution(tbl, id) ==
  [tbl EXCEPT ![id].status = TIMEOUT, ![id].finished_at = TRUE,
              ![id].error_message = "timed out",
              ![id].retry_count = tbl[id].retry_count + 1]

\* UPDATE ... SET status = 'PENDING' WHERE id = ?
reset_to_pending(tbl, id) == [tbl EXCEPT ![id].status = PENDING]

\* admin.sql: UPDATE ... SET status = 'PENDING' WHERE id = ?
retry_job(tbl, id) == [tbl EXCEPT ![id].status = PENDING]

(***************************************************************************)
(* Decisions taken in the Python code.                                     *)
(***************************************************************************)

\* Dispatcher._should_run: the clock counts scheduled instants, so the
\* previous scheduled instant of an every-instant expression is the instant
\* read, and it is within poll_interval_seconds.
should_run(t) == [run |-> TRUE, scheduled_time |-> t]

\* Dispatcher._create_job_execution with a plain INSERT: the UNIQUE
\* constraint raises on a duplicate, which surfaces as JobCreationError.
create_job_execution_plain_insert(tbl, j, s) ==
  IF check_execution_exists(tbl, j, s) # {}
  THEN [table |-> tbl, created |-> FALSE, error |-> TRUE]
  ELSE [table |-> Append(tbl, NewRow(j, s)), created |-> TRUE, error |-> FALSE]

\* Dispatcher._create_job_execution: ignore-on-conflict insert, then the
\* existence lookup whose result is the return value.
create_job_execution(tbl, j, s) ==
  LET after == create_execution_if_not_exists(tbl, j, s)
      result == check_execution_exists(after, j, s)
  IN  [table |-> after, created |-> result # {}, error |-> FALSE]

\* overlap test that skips when no incomplete execution exists
skip_for_overlap_inverted(tbl, j) == ~has_incomplete_execution(tbl, j)

\* Dispatcher._process_cron_job / _has_incomplete_execution: skip the
\* emission when an incomplete execution of the job exists.
skip_for_overlap(tbl, j) == has_incomplete_execution(tbl, j)

\* claim test that accepts an UPDATE which changed no row
claimed_always(affected_rows) == affected_rows >= 0

\* a claim that does not look at the affected rows
claimed_unchecked(affected_rows) == TRUE

\* Executor._claim_execution: return affected_rows > 0
claimed(affected_rows) == affected_rows > 0

\* a rule that never grants another attempt
should_retry_never(current_retry, m) == FALSE

\* a rule that grants one attempt more
should_retry_inclusive(current_retry, m) == current_retry + 1 <= m

\* Executor._fail_execution / _timeout_execution: current_retry + 1 < max_retry
should_retry(current_retry, m) == current_retry + 1 < m

\* errors a status write raises: the pool has no connection, the
\* transaction or the statement fails, or anything else below Exception
WriteErrors ==
  {"ConnectionPoolExhaustedError", "TransactionError", "QueryExecutionError", "Exception"}

\* except clauses that send everything to _timeout_execution
except_clause_timeout(error) == "timeout"

\* Executor.execute, the except clauses of step 4: asyncio.TimeoutError goes
\* to _timeout_execution, every other Exception to _fail_execution
except_clause(error) == IF error = "TimeoutError" THEN "timeout" ELSE "fail"

\* Executor.execute, step 4: which status write follows the handler's exit
handler_exit(outcome) ==
  CASE outcome = "ok" -> "complete"
    [] outcome = "timeout" -> "timeout"
    [] OTHER -> "fail"

\* retry test that also accepts a finished execution
retry_allowed_any_terminal(status) == status \in {FAILED, TIMEOUT, SUCCESS}

\* JobHandler.retry: only FAILED and TIMEOUT may be retried
retry_allowed(status) == status \in {FAILED, TIMEOUT}

\* exit that commits whether or not the body raised
aexit_always_commit(exc_type) == "commit"

\* ManagedTransaction.__aexit__: rollback if exc_type else commit
aexit_action(exc_type) == IF exc_type # "none" THEN "rollback" ELSE "commit"

\* transaction decorator, exit sequence: commit every transaction when f
\* returned normally, roll back every transaction when f raised
decorator_exit_action(exc_type) == IF exc_type # "none" THEN "rollback" ELSE "commit"

\* keywords WorkerPool._poll_and_assign passes to JobInfo(...)
PollKeywords ==
  {"id", "job_id", "scheduled_time", "retry_count", "job_name", "handler_name",
   "handler_params", "max_retry", "timeout_seconds"}

\* fields of the dataclass JobInfo; params_field: "params" as declared in
\* worker/model/executor.py, "handler_params" for a JobInfo declared with
\* the name its users pass and read
JobInfoFields(params_field) ==
  {"id", "job_id", "scheduled_time", "retry_count", "job_name", "handler_name",
   params_field, "max_retry", "timeout_seconds"}

\* JobInfo(**keywords) of a dataclass without defaults: every field given
\* and no other keyword, TypeError otherwise
jobinfo_constructs(params_field) == PollKeywords = JobInfoFields(params_field)

\* outcomes of the handler under asyncio.wait_for
HandlerOutcomes == {"ok", "fail", "timeout"}

(***************************************************************************)
(* Initial state.                                                          *)
(***************************************************************************)
IdleDispatcher == [pc |-> "idle", job |-> 0, sched |-> 0]

IdleTask == [pc |-> "idle", id |-> 0, retry_count |-> 0]

\* scen: "fail" / "timeout" while every attempt so far reached the handler and
\* ended that way and no admin retry happened, "other" after anything else;
\* invoked: handler invocations of the scenario (no longer counted once scen
\* is "other").
NoHistory == [invoked |-> 0, scen |-> "none"]

OtherHistory == [invoked |-> 0, scen |-> "other"]

Scen(old, event) ==
  IF old = "none" \/ old = event THEN event ELSE "other"

\* the lowest idle actor acts: idle actors are interchangeable
FirstIdle(f, x) == f[x].pc = "idle" /\ \A y \in DOMAIN f : y < x => f[y].pc # "idle"

TxIdle == [pc |-> "off"]

\* the parts of the model a specification leaves out stay in these states
PoolIdle == [pc |-> "off"]

RoIdle == [pc |-> "off"]

SchIdle == [pc |-> "off"]

LoopIdle == [pc |-> "off"]

WpOff == [pc |-> "off"]

LifeOff == [pc |-> "off"]

QueueOff == [pc |-> "off"]

\* a pooled connection and its TransactionContext before the call:
\* held: taken from the pool; bound: registered under the database name;
\* pending: an uncommitted write; visible: a write other transactions see;
\* wrote / ended: what the body and the exit did (observation only)
FreshDb ==
  [held |-> FALSE, bound |-> FALSE, in_transaction |-> FALSE,
   pending |-> FALSE, visible |-> FALSE, wrote |-> FALSE, ended |-> "none"]

\* a call of a function wrapped over n databases ("decorator") or of an
\* `async with db.transaction()` block ("managed", one database)
\* exc / result: how the body ended; raised / returned: what the caller gets
TxCall(mode, n) ==
  [pc |-> "enter", mode |-> mode, k |-> 1, exc |-> "none", result |-> "nothing",
   raised |-> "none", returned |-> "nothing",
   db |-> [i \in 1..n |-> FreshDb]]

\* how a body ends: it returns a value or raises
BodyEnds ==
  {[exc |-> "none", result |-> r] : r \in {"None", "True"}}
    \cup {[exc |-> "ValueError", result |-> "nothing"]}

CronJobs == DOMAIN cron

allow_overlap(j) == cron[j].allow_overlap

max_retry(j) == cron[j].max_retry

Start(deployment) ==
  /\ scope = [rows |-> deployment.rows, retries |-> deployment.retries,
              jobinfo |-> deployment.jobinfo]
  /\ now = 0
  /\ table = <<>>
  /\ lock = 0
  /\ disp = [d \in 1..deployment.dispatchers |-> IdleDispatcher]
  /\ task = [t \in 1..deployment.tasks |-> IdleTask]
  /\ nAdmin = 0
  /\ hist = <<>>
  /\ last = "none"

\* one definition in cron_jobs, several executor tasks
Init ==
  /\ \E def \in CronDefs : cron = [j \in {1} |-> def]
  /\ Start(WorkDeployment)
  /\ tx = TxIdle /\ pool = PoolIdle /\ ro = RoIdle /\ sch = SchIdle /\ loop = LoopIdle
  /\ wpool = WpOff /\ dlife = LifeOff /\ queue = QueueOff

\* two definitions in cron_jobs, several dispatcher replicas
InitEmit ==
  /\ cron = [j \in {1, 2} |-> [allow_overlap |-> j = 2, max_retry |-> 4 - j]]
  /\ Start(EmitDeployment)
  /\ tx = TxIdle /\ pool = PoolIdle /\ ro = RoIdle /\ sch = SchIdle /\ loop = LoopIdle
  /\ wpool = WpOff /\ dlife = LifeOff /\ queue = QueueOff

(***************************************************************************)
(* Clock.                                                                  *)
(***************************************************************************)
Tick ==
  /\ now < MaxTime
  /\ now' = now + 1
  /\ last' = "none"
  /\ UNCHANGED <<cron, scope, table, lock, disp, task, nAdmin, hist, tx, pool, ro, sch, loop, wpool, dlife, queue>>

(***************************************************************************)
(* Dispatcher._process_cron_job, one replica d handling definition j.      *)
(***************************************************************************)
\* the due test; a definition with allow_overlap goes straight to the insert
DispShouldRun(d, j) ==
  /\ FirstIdle(disp, d)
  /\ should_run(now).run
  /\ disp' = [disp EXCEPT ![d] =
                [pc |-> IF allow_overlap(j) THEN "create" ELSE "check",
                 job |-> j, sched |-> should_run(now).scheduled_time]]
  /\ last' = "none"
  /\ UNCHANGED <<cron, scope, now, table, lock, task, nAdmin, hist, tx, pool, ro, sch, loop, wpool, dlife, queue>>

\* _has_incomplete_execution in its own read-only transaction
DispCheck(d) ==
  /\ disp[d].pc = "check"
  /\ lock = 0
  /\ disp' = [disp EXCEPT ![d] =
                IF skip_for_overlap(table, disp[d].job)
                THEN IdleDispatcher
                ELSE [@ EXCEPT !.pc = "create"]]
  /\ last' = IF skip_for_overlap(table, disp[d].job) THEN "skipped" ELSE "none"
  /\ UNCHANGED <<cron, scope, now, table, lock, task, nAdmin, hist, tx, pool, ro, sch, loop, wpool, dlife, queue>>

\* _create_job_execution in one write transaction
DispCreate(d) ==
  /\ disp[d].pc = "create"
  /\ lock = 0
  /\ \/ Len(table) < scope.rows
     \/ check_execution_exists(table, disp[d].job, disp[d].sched) # {}
  /\ LET r == create_job_execution(table, disp[d].job, disp[d].sched)
     IN  /\ table' = r.table
         /\ hist' = IF Len(r.table) > Len(hist) THEN Append(hist, NoHistory) ELSE hist
         /\ disp' = [disp EXCEPT ![d] = IdleDispatcher]
         /\ last' = CASE r.error -> "JobCreationError"
                      [] ~r.created -> "false"
                      [] r.table = table -> "true: existed"
                      [] OTHER -> "true: inserted"
  /\ UNCHANGED <<cron, scope, now, lock, task, nAdmin, tx, pool, ro, sch, loop, wpool, dlife, queue>>

(***************************************************************************)
(* WorkerPool._poll_and_assign and Executor.execute, one executor task t.  *)
(***************************************************************************)
\* _get_pending_jobs read the row: JobInfo carries the retry_count read here
Poll(t) ==
  /\ FirstIdle(task, t)
  /\ lock = 0
  /\ \E id \in get_pending_executions(table) :
       IF jobinfo_constructs(scope.jobinfo)
       THEN /\ task' = [task EXCEPT ![t] =
                         [pc |-> "polled", id |-> id,
                          retry_count |-> table[id].retry_count]]
            /\ last' = "none"
       ELSE /\ task' = task
            /\ last' = "TypeError"
  /\ UNCHANGED <<cron, scope, now, table, lock, disp, nAdmin, hist, tx, pool, ro, sch, loop, wpool, dlife, queue>>

\* step 1: _claim_execution; a lost claim returns False
Claim(t) ==
  /\ task[t].pc = "polled"
  /\ lock = 0
  /\ LET id == task[t].id
         won == claimed(claim_affected_rows(table, id))
     IN  /\ table' = claim_execution(table, id)
         /\ task' = [task EXCEPT ![t] =
                       IF won THEN [@ EXCEPT !.pc = "claimed"] ELSE IdleTask]
         /\ last' = IF won THEN "none" ELSE "false: not claimed"
  /\ UNCHANGED <<cron, scope, now, lock, disp, nAdmin, hist, tx, pool, ro, sch, loop, wpool, dlife, queue>>

\* steps 2-4: handler found, params parsed, handler.execute awaited
InvokeHandler(t) ==
  /\ task[t].pc = "claimed"
  /\ task' = [task EXCEPT ![t].pc = "handler"]
  /\ hist' = [hist EXCEPT ![task[t].id].invoked =
                               IF hist[task[t].id].scen = "other" THEN 0 ELSE @ + 1]
  /\ last' = "none"
  /\ UNCHANGED <<cron, scope, now, table, lock, disp, nAdmin, tx, pool, ro, sch, loop, wpool, dlife, queue>>

\* steps 2-3 failing (HandlerNotFoundError, bad handler_params):
\* _fail_execution, first statement
ResolveFail(t) ==
  /\ task[t].pc = "claimed"
  /\ lock = 0
  /\ table' = fail_execution(table, task[t].id)
  /\ lock' = t
  /\ task' = [task EXCEPT ![t].pc = "failing"]
  /\ hist' = [hist EXCEPT ![task[t].id] = OtherHistory]
  /\ last' = "none"
  /\ UNCHANGED <<cron, scope, now, disp, nAdmin, tx, pool, ro, sch, loop, wpool, dlife, queue>>

\* step 4: the handler returned, raised, or overran timeout_seconds.
\* _complete_execution is one statement; _fail_execution and
\* _timeout_execution run their first statement here.
HandlerExit(t, outcome) ==
  /\ task[t].pc = "handler"
  /\ lock = 0
  /\ LET id == task[t].id
         path == handler_exit(outcome)
     IN  /\ table' = CASE path = "complete" -> complete_execution(table, id)
                       [] path = "timeout" -> timeout_execution(table, id)
                       [] OTHER -> fail_execution(table, id)
         /\ lock' = IF path = "complete" THEN 0 ELSE t
         /\ task' = [task EXCEPT ![t] =
                       CASE path = "complete" -> IdleTask
                         [] path = "timeout" -> [@ EXCEPT !.pc = "timing"]
                         [] OTHER -> [@ EXCEPT !.pc = "failing"]]
         /\ hist' = [hist EXCEPT ![id] =
                       IF Scen(@.scen, outcome) = "other" THEN OtherHistory
                       ELSE [@ EXCEPT !.scen = outcome]]
         /\ last' = IF path = "complete" THEN "true" ELSE "none"
  /\ UNCHANGED <<cron, scope, now, disp, nAdmin, tx, pool, ro, sch, loop, wpool, dlife, queue>>

\* _fail_execution / _timeout_execution, second statement and commit
RetryDecision(t) ==
  /\ task[t].pc \in {"failing", "timing"}
  /\ lock = t
  /\ LET id == task[t].id
         again == should_retry(task[t].retry_count, max_retry(table[id].job_id))
     IN  /\ table' = IF again THEN reset_to_pending(table, id) ELSE table
  /\ lock' = 0
  /\ task' = [task EXCEPT ![t] = IdleTask]
  /\ last' = "false: failed"
  /\ UNCHANGED <<cron, scope, now, disp, nAdmin, hist, tx, pool, ro, sch, loop, wpool, dlife, queue>>

(***************************************************************************)
(* JobHandler.retry (POST /jobs/{id}/retry), one write transaction.        *)
(***************************************************************************)
AdminRetry(id) ==
  /\ lock = 0
  /\ nAdmin < scope.retries
  /\ nAdmin' = nAdmin + 1
  /\ IF retry_allowed(table[id].status)
     THEN /\ table' = retry_job(table, id)
          /\ hist' = [hist EXCEPT ![id] = OtherHistory]
          /\ last' = "retried"
     ELSE /\ last' = "InvalidJobStatusError"
          /\ UNCHANGED <<table, hist>>
  /\ UNCHANGED <<cron, scope, now, lock, disp, task, tx, pool, ro, sch, loop, wpool, dlife, queue>>

Next ==
  \/ Tick
  \/ \E d \in DOMAIN disp, j \in CronJobs : DispShouldRun(d, j)
  \/ \E d \in DOMAIN disp : DispCheck(d)
  \/ \E d \in DOMAIN disp : DispCreate(d)
  \/ \E t \in DOMAIN task : Poll(t)
  \/ \E t \in DOMAIN task : Claim(t)
  \/ \E t \in DOMAIN task : InvokeHandler(t)
  \/ \E t \in DOMAIN task : ResolveFail(t)
  \/ \E t \in DOMAIN task, o \in HandlerOutcomes : HandlerExit(t, o)
  \/ \E t \in DOMAIN task : RetryDecision(t)
  \/ \E id \in Ids(table) : AdminRetry(id)

Spec == Init /\ [][Next]_vars

SpecEmit == InitEmit /\ [][Next]_vars

(***************************************************************************)
(* A running worker pool whose handlers are registered, get valid          *)
(* parameters and return a result: the dispatcher emits executions and the *)
(* pool works them off.                                                    *)
(***************************************************************************)
InitRun ==
  /\ cron = [j \in {1} |-> [allow_overlap |-> TRUE, max_retry |-> 3]]
  /\ \E deployment \in RunDeployments : Start(deployment)
  /\ tx = TxIdle /\ pool = PoolIdle /\ ro = RoIdle /\ sch = SchIdle /\ loop = LoopIdle
  /\ wpool = WpOff /\ dlife = LifeOff /\ queue = QueueOff

\* the steps of executor task t on the way of a handler that succeeds
RunStep(t) == Claim(t) \/ InvokeHandler(t) \/ HandlerExit(t, "ok")

NextRun ==
  \/ Tick
  \/ \E d \in DOMAIN disp, j \in CronJobs : DispShouldRun(d, j)
  \/ \E d \in DOMAIN disp : DispCreate(d)
  \/ \E t \in DOMAIN task : Poll(t)
  \/ \E t \in DOMAIN task : RunStep(t)

\* the pool's loop polls again and again while it runs, and the event loop
\* runs every task it created
SpecRun ==
  /\ InitRun
  /\ [][NextRun]_vars
  /\ WF_vars(\E t \in 1..RunTasks : Poll(t))
  /\ \A t \in 1..RunTasks : WF_vars(RunStep(t))

(***************************************************************************)
(* Transaction layer: one call of a function wrapped over tx.db (or of an  *)
(* `async with db.transaction()` block) from entry to exit.                *)
(***************************************************************************)
\* commit that ends the transaction without publishing its writes
ctx_commit_discards(c, fails) ==
  IF ~c.in_transaction THEN [db |-> c, error |-> "none"]
  ELSE [db |-> [c EXCEPT !.in_transaction = FALSE, !.pending = FALSE,
                          !.ended = "committed"],
        error |-> "none"]

\* TransactionContext.commit; fails: connection.commit() raises
ctx_commit(c, fails) ==
  IF ~c.in_transaction THEN [db |-> c, error |-> "none"]
  ELSE IF fails
       THEN [db |-> [c EXCEPT !.ended = "commit failed"], error |-> "CommitError"]
       ELSE [db |-> [c EXCEPT !.in_transaction = FALSE, !.pending = FALSE,
                               !.visible = c.visible \/ c.pending,
                               !.ended = "committed"],
             error |-> "none"]

\* rollback that publishes the writes it should discard
ctx_rollback_publishes(c, fails) ==
  IF ~c.in_transaction THEN [db |-> c, error |-> "none"]
  ELSE [db |-> [c EXCEPT !.in_transaction = FALSE, !.pending = FALSE,
                          !.visible = c.visible \/ c.pending,
                          !.ended = "rolled back"],
        error |-> "none"]

\* TransactionContext.rollback; fails: connection.rollback() raises
ctx_rollback(c, fails) ==
  IF ~c.in_transaction THEN [db |-> c, error |-> "none"]
  ELSE IF fails
       THEN [db |-> [c EXCEPT !.ended = "rollback failed"], error |-> "RollbackError"]
       ELSE [db |-> [c EXCEPT !.in_transaction = FALSE, !.pending = FALSE,
                               !.ended = "rolled back"],
             error |-> "none"]

\* no scheduler actors
NoScheduler ==
  /\ cron = <<>>
  /\ Start([tasks |-> 0, dispatchers |-> 0, rows |-> 0, retries |-> 0,
            jobinfo |-> "handler_params"])

\* one call of the given shape about to start
InitTx ==
  /\ NoScheduler
  /\ pool = PoolIdle /\ ro = RoIdle /\ sch = SchIdle /\ loop = LoopIdle
  /\ wpool = WpOff /\ dlife = LifeOff /\ queue = QueueOff
  /\ \/ \E n \in 1..NumDbs : tx = TxCall("decorator", n)
     \/ tx = TxCall("managed", 1)

\* entry, database tx.k: acquire a connection, open the transaction, bind
\* the context under the database name
TxEnter ==
  /\ tx.pc = "enter"
  /\ tx' = [tx EXCEPT !.db[tx.k] = [@ EXCEPT !.held = TRUE, !.bound = TRUE,
                                                !.in_transaction = TRUE],
                       !.k = IF tx.k = Len(tx.db) THEN 1 ELSE tx.k + 1,
                       !.pc = IF tx.k = Len(tx.db) THEN "body" ELSE "enter"]
  /\ UNCHANGED <<sched, pool, ro, sch, loop, wpool, dlife, queue>>

\* ManagedTransaction.__aenter__ whose BEGIN raises (the database is locked
\* past busy_timeout, the server is gone): the connection was acquired, the
\* context is not bound, and __aexit__ does not run
TxEnterFails ==
  /\ tx.pc = "enter"
  /\ tx.mode = "managed"
  /\ tx' = [tx EXCEPT !.db[1] = [@ EXCEPT !.held = TRUE],
                       !.raised = "BeginError",
                       !.pc = "done"]
  /\ UNCHANGED <<sched, pool, ro, sch, loop, wpool, dlife, queue>>

\* the body writes on database i through its bound context
TxWrite(i) ==
  /\ tx.pc = "body"
  /\ ~tx.db[i].wrote
  /\ tx' = [tx EXCEPT !.db[i] = [@ EXCEPT !.pending = TRUE, !.wrote = TRUE]]
  /\ UNCHANGED <<sched, pool, ro, sch, loop, wpool, dlife, queue>>

\* the body returns a value (exc = "none") or raises
TxBodyEnd(end) ==
  /\ tx.pc = "body"
  /\ tx' = [tx EXCEPT !.pc = "exit", !.exc = end.exc, !.result = end.result]
  /\ UNCHANGED <<sched, pool, ro, sch, loop, wpool, dlife, queue>>

\* ManagedTransaction.__aexit__, try block: the commit or the rollback,
\* whose error leaves __aexit__ in place of the body's
TxManagedExit(fails) ==
  /\ tx.pc = "exit"
  /\ tx.mode = "managed"
  /\ LET r == IF aexit_action(tx.exc) = "rollback"
              THEN ctx_rollback(tx.db[1], fails)
              ELSE ctx_commit(tx.db[1], fails)
     IN  tx' = [tx EXCEPT !.db[1] = r.db,
                          !.raised = IF r.error # "none" THEN r.error ELSE tx.exc,
                          !.pc = "finally"]
  /\ UNCHANGED <<sched, pool, ro, sch, loop, wpool, dlife, queue>>

\* decorator exit, database tx.k: commits in declared order, and rollbacks
\* once f raised or an earlier commit failed; a failing rollback is logged
TxDecoratorExit(fails) ==
  /\ tx.pc = "exit"
  /\ tx.mode = "decorator"
  /\ LET error == IF tx.raised # "none" THEN tx.raised ELSE tx.exc
         r == IF decorator_exit_action(error) = "rollback"
              THEN ctx_rollback(tx.db[tx.k], fails)
              ELSE ctx_commit(tx.db[tx.k], fails)
     IN  tx' = [tx EXCEPT !.db[tx.k] = r.db,
                          !.raised = IF error = "none" THEN r.error ELSE error,
                          !.k = IF tx.k = Len(tx.db) THEN 1 ELSE tx.k + 1,
                          !.pc = IF tx.k = Len(tx.db) THEN "finally" ELSE "exit"]
  /\ UNCHANGED <<sched, pool, ro, sch, loop, wpool, dlife, queue>>

\* finally: every binding cleared, every connection released; the caller
\* gets tx.raised, or the body's return value when nothing was raised
TxFinally ==
  /\ tx.pc = "finally"
  /\ tx' = [tx EXCEPT !.db = [i \in DOMAIN tx.db |->
                                [tx.db[i] EXCEPT !.held = FALSE, !.bound = FALSE]],
                       !.returned = IF tx.raised = "none" THEN tx.result ELSE "nothing",
                       !.pc = "done"]
  /\ UNCHANGED <<sched, pool, ro, sch, loop, wpool, dlife, queue>>

NextTx ==
  \/ TxEnter
  \/ TxEnterFails
  \/ \E i \in DOMAIN tx.db : TxWrite(i)
  \/ \E end \in BodyEnds : TxBodyEnd(end)
  \/ \E fails \in BOOLEAN : TxManagedExit(fails)
  \/ \E fails \in BOOLEAN : TxDecoratorExit(fails)
  \/ TxFinally

SpecTx == InitTx /\ [][NextTx]_vars

(***************************************************************************)
(* Connection pool and ambient bindings: PoolTasks tasks, each calling     *)
(* once a function wrapped over the database 'default', whose pool has     *)
(* pool_size connections.                                                  *)
(*   pool.permits    value of the semaphore                                *)
(*   pool.conn[c]    in_use flag and uncommitted writes of connection c    *)
(*   pool.reg[t]     connection bound under 'default' in task t, or 0      *)
(*   pool.wlock      task holding the database's write lock, or 0          *)
(*   pool.committed  tasks whose write is committed                        *)
(*   pool.task[t]    position of task t, the connection acquire gave it,   *)
(*                   whether it had to wait, its last get_connection       *)
(*                   result and the error its call ended with              *)
(***************************************************************************)
PoolTaskIds == 1..PoolTasks

\* AsyncConnectionPool.available
available(p) == Cardinality({c \in DOMAIN p.conn : ~p.conn[c].in_use})

\* connections marked in use
in_use_count(p) == Cardinality({c \in DOMAIN p.conn : p.conn[c].in_use})

\* scan that takes the first connection whether or not it is in use
first_free_unchecked(conn) == 1

\* acquire, under the lock: the first connection not in use, 0 when none
first_free(conn) ==
  IF \E c \in DOMAIN conn : ~conn[c].in_use
  THEN CHOOSE c \in DOMAIN conn :
         ~conn[c].in_use /\ \A b \in 1..(c - 1) : conn[b].in_use
  ELSE 0

\* wait that may give up although a permit is free
wait_times_out_early(permits) == TRUE

\* asyncio.wait_for(semaphore.acquire(), timeout) ends in TimeoutError: no
\* permit was released to the waiter before the deadline
wait_times_out(permits) == permits = 0

\* one binding shared by every task
set_connection_shared(reg, t, c) == [u \in DOMAIN reg |-> c]

\* set_connection / clear_connection (c = 0) in the map of task t
set_connection(reg, t, c) == [reg EXCEPT ![t] = c]

\* get_connection in task t
get_connection(reg, t) ==
  IF reg[t] = 0 THEN [ctx |-> 0, error |-> "No active transaction"]
  ELSE [ctx |-> reg[t], error |-> "none"]

\* no lookup made yet
NoLookup == [ctx |-> 0, error |-> "not called"]

StartPool ==
  [pc |-> "on",
   permits |-> pool_size,
   conn |-> [c \in 1..pool_size |-> [in_use |-> FALSE, pending |-> {}]],
   task |-> [t \in PoolTaskIds |-> [pc |-> "idle", conn |-> 0, waited |-> FALSE, got |-> NoLookup,
                                   err |-> "none"]],
   reg |-> [t \in PoolTaskIds |-> 0],
   wlock |-> 0,
   committed |-> {}]

InitPool ==
  /\ NoScheduler
  /\ tx = TxIdle /\ ro = RoIdle /\ sch = SchIdle /\ loop = LoopIdle
  /\ wpool = WpOff /\ dlife = LifeOff /\ queue = QueueOff
  /\ pool = StartPool

\* acquire: the semaphore is taken at once when a permit is free, otherwise
\* the task waits under wait_for (the lowest idle task calls: idle tasks
\* are interchangeable)
AcquireStart(t) ==
  /\ FirstIdle(pool.task, t)
  /\ pool' = IF pool.permits > 0
             THEN [pool EXCEPT !.permits = @ - 1, !.task[t].pc = "permit"]
             ELSE [pool EXCEPT !.task[t].pc = "waiting", !.task[t].waited = TRUE]
  /\ UNCHANGED <<sched, tx, ro, sch, loop, wpool, dlife, queue>>

\* a permit released by a holder reaches the waiter before its deadline
AcquireGranted(t) ==
  /\ pool.task[t].pc = "waiting"
  /\ pool.permits > 0
  /\ pool' = [pool EXCEPT !.permits = @ - 1, !.task[t].pc = "permit"]
  /\ UNCHANGED <<sched, tx, ro, sch, loop, wpool, dlife, queue>>

\* the deadline passes: asyncio.TimeoutError becomes
\* ConnectionPoolExhaustedError and the call is over
AcquireTimeout(t) ==
  /\ pool.task[t].pc = "waiting"
  /\ wait_times_out(pool.permits)
  /\ pool' = [pool EXCEPT !.task[t].pc = "done",
                          !.task[t].err = "ConnectionPoolExhaustedError"]
  /\ UNCHANGED <<sched, tx, ro, sch, loop, wpool, dlife, queue>>

\* acquire, under the lock: mark the first free connection; with none free
\* the permit is given back and the call fails
AcquireMark(t) ==
  /\ pool.task[t].pc = "permit"
  /\ LET c == first_free(pool.conn)
     IN  pool' = IF c # 0
                 THEN [pool EXCEPT !.conn[c].in_use = TRUE,
                                   !.task[t].conn = c,
                                   !.task[t].pc = "acquired"]
                 ELSE [pool EXCEPT !.permits = @ + 1,
                                   !.task[t].pc = "done",
                                   !.task[t].err = "ConnectionPoolExhaustedError"]
  /\ UNCHANGED <<sched, tx, ro, sch, loop, wpool, dlife, queue>>

\* entry: BEGIN IMMEDIATE waits for the database's write lock, then the
\* context is bound under the database name in the task's map
PoolBegin(t) ==
  /\ pool.task[t].pc = "acquired"
  /\ pool.wlock = 0
  /\ pool' = [pool EXCEPT !.wlock = t,
                          !.reg = set_connection(pool.reg, t, pool.task[t].conn),
                          !.task[t].pc = "body"]
  /\ UNCHANGED <<sched, tx, ro, sch, loop, wpool, dlife, queue>>

\* the body: get_connection('default') and one INSERT through what it got
PoolWrite(t) ==
  /\ pool.task[t].pc = "body"
  /\ LET got == get_connection(pool.reg, t)
     IN  pool' = IF got.error # "none"
                 THEN [pool EXCEPT !.task[t].got = got, !.task[t].pc = "wrote"]
                 ELSE [pool EXCEPT !.conn[got.ctx].pending = @ \cup {t},
                                   !.task[t].got = got,
                                   !.task[t].pc = "wrote"]
  /\ UNCHANGED <<sched, tx, ro, sch, loop, wpool, dlife, queue>>

\* exit: commit on the task's own connection
PoolCommit(t) ==
  /\ pool.task[t].pc = "wrote"
  /\ LET c == pool.task[t].conn
     IN  pool' = [pool EXCEPT !.committed = @ \cup pool.conn[c].pending,
                              !.conn[c].pending = {},
                              !.wlock = 0,
                              !.task[t].pc = "committed"]
  /\ UNCHANGED <<sched, tx, ro, sch, loop, wpool, dlife, queue>>

\* exit, finally: clear_connection, then release under the lock
PoolReleaseMark(t) ==
  /\ pool.task[t].pc = "committed"
  /\ pool' = [pool EXCEPT !.reg = set_connection(pool.reg, t, 0),
                          !.conn[pool.task[t].conn].in_use = FALSE,
                          !.task[t].pc = "releasing"]
  /\ UNCHANGED <<sched, tx, ro, sch, loop, wpool, dlife, queue>>

\* release: the permit goes back to the semaphore
PoolReleaseSem(t) ==
  /\ pool.task[t].pc = "releasing"
  /\ pool' = [pool EXCEPT !.permits = @ + 1, !.task[t].pc = "done"]
  /\ UNCHANGED <<sched, tx, ro, sch, loop, wpool, dlife, queue>>

\* get_connection('default') in a task that is in no transaction
PoolProbe(t) ==
  /\ pool.task[t].pc = "idle"
  /\ pool.task[t].got # get_connection(pool.reg, t)
  /\ pool' = [pool EXCEPT !.task[t].got = get_connection(pool.reg, t)]
  /\ UNCHANGED <<sched, tx, ro, sch, loop, wpool, dlife, queue>>

NextPool ==
  \/ \E t \in PoolTaskIds : AcquireStart(t)
  \/ \E t \in PoolTaskIds : AcquireGranted(t)
  \/ \E t \in PoolTaskIds : AcquireTimeout(t)
  \/ \E t \in PoolTaskIds : AcquireMark(t)
  \/ \E t \in PoolTaskIds : PoolBegin(t)
  \/ \E t \in PoolTaskIds : PoolWrite(t)
  \/ \E t \in PoolTaskIds : PoolCommit(t)
  \/ \E t \in PoolTaskIds : PoolReleaseMark(t)
  \/ \E t \in PoolTaskIds : PoolReleaseSem(t)
  \/ \E t \in PoolTaskIds : PoolProbe(t)

SpecPool == InitPool /\ [][NextPool]_vars

\* ManagedTransaction.__aenter__ when the BEGIN statement raises (the
\* database stays locked past busy_timeout, the server is gone): the error
\* leaves __aenter__, no line of which releases, and __aexit__ is not run
PoolBeginFails(t) ==
  /\ pool.task[t].pc = "acquired"
  /\ pool' = [pool EXCEPT !.task[t].pc = "done",
                          !.task[t].err = "OperationalError"]
  /\ UNCHANGED <<sched, tx, ro, sch, loop, wpool, dlife, queue>>

NextBegin ==
  \/ NextPool
  \/ \E t \in PoolTaskIds : PoolBeginFails(t)

\* the tasks of SpecPool, with transactions that may fail to open
SpecBegin == InitPool /\ [][NextBegin]_vars

(***************************************************************************)
(* Read-only guard of the TransactionContext: calls of the SQL-executing   *)
(* operations of one context, SQLite's or MySQL's, read-only or not.       *)
(* A statement is a sequence of tokens: whitespace, a leading word in      *)
(* either case, and the rest.                                              *)
(*   ro.call    the operation and the statement of the last call           *)
(*   ro.result  what the call returned or raised                           *)
(*   ro.sent    what the call passed to the connection ("nothing" or the   *)
(*              statement)                                                 *)
(***************************************************************************)
\* _is_write_query: write_keywords
write_keywords == {"INSERT", "UPDATE", "DELETE", "CREATE", "DROP", "ALTER", "TRUNCATE"}

\* leading words of the statements issued, as written by a caller
LeadingWords ==
  {"INSERT", "UPDATE", "DELETE", "CREATE", "DROP", "ALTER", "TRUNCATE", "SELECT",
   "insert", "update", "delete", "create", "drop", "alter", "truncate", "select"}

\* str.upper on a token
upper(tok) ==
  CASE tok = "insert" -> "INSERT" [] tok = "update" -> "UPDATE"
    [] tok = "delete" -> "DELETE" [] tok = "create" -> "CREATE"
    [] tok = "drop" -> "DROP" [] tok = "alter" -> "ALTER"
    [] tok = "truncate" -> "TRUNCATE" [] tok = "select" -> "SELECT"
    [] OTHER -> tok

\* str.strip: whitespace removed at both ends
RECURSIVE lstrip(_)
lstrip(sql) ==
  IF sql # <<>> /\ Head(sql) = " " THEN lstrip(Tail(sql)) ELSE sql

RECURSIVE rstrip(_)
rstrip(sql) ==
  IF sql # <<>> /\ sql[Len(sql)] = " " THEN rstrip(SubSeq(sql, 1, Len(sql) - 1)) ELSE sql

strip(sql) == rstrip(lstrip(sql))

\* statements issued: optional whitespace (a newline after the opening
\* quotes), the leading word, the rest
Statements ==
  {ws \o <<w, " ", "..">> : ws \in {<<>>, <<" ">>}, w \in LeadingWords}

\* TransactionContext._is_write_query:
\* sql.strip().upper().startswith(write_keywords)
is_write_query(sql) ==
  LET s == strip(sql) IN s # <<>> /\ upper(Head(s)) \in write_keywords

\* the SQL-executing operations each context has
Operations(engine) ==
  IF engine = "sqlite"
  THEN {"execute", "executemany", "fetch_one", "fetch_all"}
  ELSE {"execute", "executemany", "fetch_one", "fetch_all", "fetch_val"}

\* operations that test `self._readonly and self._is_write_query(sql)`
\* before the connection is used: in the SQLite context fetch_one and
\* fetch_all go through self.execute, in the MySQL context they and
\* fetch_val open their own cursor
guarded(engine, op) ==
  IF engine = "sqlite"
  THEN op \in {"execute", "executemany", "fetch_one", "fetch_all"}
  ELSE op \in {"execute", "executemany"}

\* one call of an operation of a context: its result and what reached the
\* connection
ctx_call(engine, readonly, op, sql) ==
  IF guarded(engine, op) /\ readonly /\ is_write_query(sql)
  THEN [result |-> "ReadOnlyTransactionError", sent |-> <<>>]
  ELSE [result |-> "returned", sent |-> sql]

NoCall == [op |-> "none", sql |-> <<>>]

InitRO ==
  /\ NoScheduler
  /\ tx = TxIdle /\ pool = PoolIdle /\ sch = SchIdle /\ loop = LoopIdle
  /\ wpool = WpOff /\ dlife = LifeOff /\ queue = QueueOff
  /\ \E engine \in {"sqlite", "mysql"}, readonly \in BOOLEAN :
       ro = [pc |-> "on", engine |-> engine, readonly |-> readonly,
             call |-> NoCall, result |-> "none", sent |-> <<>>]

\* a caller issues a statement through an operation of the context
RoCall(op, sql) ==
  /\ ro.pc = "on"
  /\ op \in Operations(ro.engine)
  /\ LET r == ctx_call(ro.engine, ro.readonly, op, sql)
     IN  ro' = [ro EXCEPT !.call = [op |-> op, sql |-> sql],
                          !.result = r.result,
                          !.sent = r.sent]
  /\ UNCHANGED <<sched, tx, pool, sch, loop, wpool, dlife, queue>>

NextRO ==
  \E op \in Operations("mysql"), sql \in Statements : RoCall(op, sql)

SpecRO == InitRO /\ [][NextRO]_vars

(***************************************************************************)
(* Dispatcher timing: one dispatcher polling one enabled definition with a *)
(* valid expression and allow_overlap = true, on a clock in seconds.       *)
(* A poll at sch.clock stands for a poll just after that second.           *)
(*   sch.interval   seconds between two scheduled instants of the          *)
(*                  definition (60: "* * * * *", 120: "*/2 * * * *")       *)
(*   sch.config     poll_interval_seconds and max_sleep_seconds            *)
(*   sch.start      the clock at the dispatcher's first poll               *)
(*   sch.rows       scheduled_time of the PENDING rows emitted             *)
(*   sch.polled     clock values at which a poll was made                  *)
(***************************************************************************)
\* the clock stops here
Horizon == MaxInstants * 60

\* DispatcherConfig: values within poll_interval_seconds ge=10 le=600 and
\* max_sleep_seconds ge=60 le=600
DispatcherConfigs ==
  {[poll_interval_seconds |-> p, max_sleep_seconds |-> m] :
     p \in {30, 60, 120}, m \in {60, 300}}

\* croniter(expr, now).get_prev / get_next for an expression firing every
\* `interval` seconds
get_prev(at, interval) == (at \div interval) * interval

get_next(at, interval) == get_prev(at, interval) + interval

\* a test of the due window that leaves out its far end
should_run_at_exclusive(at, interval, config) ==
  LET prev_time == get_prev(at, interval)
  IN  IF at - prev_time < config.poll_interval_seconds
      THEN [run |-> TRUE, scheduled_time |-> prev_time]
      ELSE [run |-> FALSE, scheduled_time |-> 0]

\* Dispatcher._should_run: due iff now - prev <= poll_interval_seconds
should_run_at(at, interval, config) ==
  LET prev_time == get_prev(at, interval)
      diff_seconds == at - prev_time
  IN  IF diff_seconds <= config.poll_interval_seconds
      THEN [run |-> TRUE, scheduled_time |-> prev_time]
      ELSE [run |-> FALSE, scheduled_time |-> 0]

Min(a, b) == IF a <= b THEN a ELSE b

Max(a, b) == IF a >= b THEN a ELSE b

\* Dispatcher._calculate_next_sleep for the one definition:
\* max(poll_interval, min(min_wait, max_sleep))
calculate_next_sleep(at, interval, config) ==
  LET wait_seconds == get_next(at, interval) - at
      min_wait == IF wait_seconds > 0
                  THEN Min(config.max_sleep_seconds, wait_seconds)
                  ELSE config.max_sleep_seconds
  IN  Max(config.poll_interval_seconds, Min(min_wait, config.max_sleep_seconds))

InitSched ==
  /\ NoScheduler
  /\ tx = TxIdle /\ pool = PoolIdle /\ ro = RoIdle /\ loop = LoopIdle
  /\ wpool = WpOff /\ dlife = LifeOff /\ queue = QueueOff
  /\ \E interval \in {60, 120}, config \in DispatcherConfigs, start \in {0, 5, 30, 55} :
       sch = [pc |-> "poll", interval |-> interval, config |-> config,
              start |-> start, clock |-> start, wake |-> start,
              rows |-> {}, polled |-> {}]

\* one iteration of _main_loop up to the sleep: _process_cron_job emits
\* the row of the previous instant when it is due, then the sleep is set
SchPoll ==
  /\ sch.pc = "poll"
  /\ LET r == should_run_at(sch.clock, sch.interval, sch.config)
     IN  sch' = [sch EXCEPT
                   !.rows = IF r.run THEN @ \cup {r.scheduled_time} ELSE @,
                   !.polled = @ \cup {sch.clock},
                   !.wake = sch.clock
                              + calculate_next_sleep(sch.clock, sch.interval, sch.config),
                   !.pc = "sleep"]
  /\ UNCHANGED <<sched, tx, pool, ro, loop, wpool, dlife, queue>>

\* _sleep returns after sleep_seconds
SchSleep ==
  /\ sch.pc = "sleep"
  /\ sch.wake <= Horizon
  /\ sch' = [sch EXCEPT !.clock = sch.wake, !.pc = "poll"]
  /\ UNCHANGED <<sched, tx, pool, ro, loop, wpool, dlife, queue>>

NextSched == SchPoll \/ SchSleep

\* the main loop runs for as long as the dispatcher does: its next step is
\* always taken
SpecSched == InitSched /\ [][NextSched]_vars /\ WF_vars(NextSched)

(***************************************************************************)
(* One iteration of Dispatcher._main_loop over the loaded list of enabled  *)
(* definitions, each of which is due and may fail at one of the steps of   *)
(* _process_cron_job.                                                      *)
(*   loop.jobs       for each definition of the list, the error its        *)
(*                   processing runs into ("none": it is emitted)          *)
(*   loop.i          position of the for loop                              *)
(*   loop.processed  definitions _process_cron_job returned normally for   *)
(*   loop.emitted    definitions whose execution row was created           *)
(***************************************************************************)
\* what a step of _process_cron_job raises for a definition: the
\* validation (unparsable expression, interval too short), _should_run,
\* the overlap check (a database error), the insert
ProcessErrors ==
  {"none", "CronParseError", "CronIntervalTooShortError", "JobCreationError",
   "QueryExecutionError", "ConnectionPoolExhaustedError", "RuntimeError"}

\* handlers that name the three dispatcher errors only
caught_if_named(error) ==
  error \in {"CronParseError", "CronIntervalTooShortError", "JobCreationError"}

\* the except clauses of _process_cron_job: CronParseError,
\* CronIntervalTooShortError, JobCreationError, then Exception
caught(error) ==
  \/ error \in {"CronParseError", "CronIntervalTooShortError", "JobCreationError"}
  \/ error \in ProcessErrors \ {"none"}

\* _process_cron_job for a definition running into `error`: what it
\* raises to the loop and whether the row was created
process_cron_job(error) ==
  IF error = "none" THEN [raised |-> "none", created |-> TRUE]
  ELSE IF caught(error) THEN [raised |-> "none", created |-> FALSE]
  ELSE [raised |-> error, created |-> FALSE]

InitLoop ==
  /\ NoScheduler
  /\ tx = TxIdle /\ pool = PoolIdle /\ ro = RoIdle /\ sch = SchIdle
  /\ wpool = WpOff /\ dlife = LifeOff /\ queue = QueueOff
  /\ \E n \in 1..MaxJobs : \E jobs \in [1..n -> ProcessErrors] :
       loop = [pc |-> "for", jobs |-> jobs, i |-> 1, processed |-> <<>>,
               emitted |-> {}, raised |-> "none"]

\* for job in jobs: await self._process_cron_job(job); an error that
\* leaves _process_cron_job leaves the for loop too
LoopProcess ==
  /\ loop.pc = "for"
  /\ loop.i <= Len(loop.jobs)
  /\ LET r == process_cron_job(loop.jobs[loop.i])
     IN  loop' = IF r.raised = "none"
                 THEN [loop EXCEPT !.processed = Append(@, loop.i),
                                   !.emitted = IF r.created THEN @ \cup {loop.i} ELSE @,
                                   !.i = @ + 1]
                 ELSE [loop EXCEPT !.raised = r.raised, !.pc = "except"]
  /\ UNCHANGED <<sched, tx, pool, ro, sch, wpool, dlife, queue>>

\* the list is done, or the error reached the handlers of _main_loop: the
\* iteration ends in its sleep
LoopSleep ==
  /\ \/ loop.pc = "for" /\ loop.i > Len(loop.jobs)
     \/ loop.pc = "except"
  /\ loop' = [loop EXCEPT !.pc = "sleep"]
  /\ UNCHANGED <<sched, tx, pool, ro, sch, wpool, dlife, queue>>

NextLoop == LoopProcess \/ LoopSleep

SpecLoop == InitLoop /\ [][NextLoop]_vars

(***************************************************************************)
(* One WorkerPool object from start() to its return, on a table that holds *)
(* PENDING executions of a definition whose handler returns a result.      *)
(*   wpool.pc             position of start() / _main_loop                 *)
(*   wpool.config         WorkerConfig                                     *)
(*   wpool.running        _running                                         *)
(*   wpool.stop_event     _stop_event is set                               *)
(*   wpool.holding        executor tasks holding a slot of _semaphore      *)
(*   wpool.running_tasks  _running_tasks                                   *)
(*   wpool.in_flight      len(_running_tasks) read by the poll cycle       *)
(*   wpool.limit          the limit the poll cycle reads with              *)
(*   wpool.jobs           rows read by the poll cycle, not yet assigned    *)
(*   wpool.gathered       tasks _wait_running_tasks waits for              *)
(*   wpool.elapsed        shutdown_timeout_seconds ran out                 *)
(*   wpool.at_stop        executions in flight when stop() was called, and *)
(*   wpool.cancelled      tasks cancelled (observation only)               *)
(***************************************************************************)
\* executor tasks the event loop has room for
WorkerSlots == 1..(MaxWorkers + 1)

WorkerConfigs ==
  {[pool_size |-> p, claim_batch_size |-> b] : p \in 1..MaxWorkers, b \in 1..MaxBatch}

\* batch size that ignores the workers in use
batch_size_of_config(available_workers, claim_batch_size) == claim_batch_size

\* _poll_and_assign: batch_size = min(available_workers, claim_batch_size)
batch_size(available_workers, claim_batch_size) ==
  Min(available_workers, claim_batch_size)

\* worker.sql get_pending_executions(limit): the PENDING rows in
\* scheduled_time order (the order of their ids), at most `limit` of them
get_pending_jobs(tbl, limit) ==
  LET pending == SelectSeq([i \in 1..Len(tbl) |-> i], LAMBDA i : tbl[i].status = PENDING)
  IN  [k \in 1..Min(limit, Len(pending)) |->
         [id |-> pending[k], retry_count |-> tbl[pending[k]].retry_count]]

\* wait that returns although tasks are running and time is left
wait_over_at_once(gathered, done, elapsed) == TRUE

\* _wait_running_tasks: wait_for(gather(*tasks), timeout) is over when every
\* task is done or the timeout ran out
wait_over(gathered, done, elapsed) == gathered \subseteq done \/ elapsed

\* executor tasks of the pool that have not finished
InFlight == {t \in wpool.running_tasks : task[t].pc # "idle"}

\* tasks counted as over as soon as execute returned, slot released or not
Done_at_return == {t \in WorkerSlots : task[t].pc = "idle"}

\* tasks whose coroutine is over (execute returned, the slot is released)
Done == {t \in WorkerSlots : task[t].pc = "idle" /\ t \notin wpool.holding}

\* tasks of the pool whose coroutine is not over
Unfinished == wpool.running_tasks \ Done

NewWorkerPool(config) ==
  [pc |-> "new", config |-> config, running |-> FALSE, stop_event |-> FALSE,
   holding |-> {}, running_tasks |-> {}, in_flight |-> 0, limit |-> 0,
   jobs |-> <<>>, gathered |-> {}, elapsed |-> FALSE, at_stop |-> {},
   cancelled |-> {}]

InitWorker ==
  /\ cron = [j \in {1} |-> [allow_overlap |-> TRUE, max_retry |-> 3]]
  /\ scope = [rows |-> WorkerRows, retries |-> 0, jobinfo |-> "handler_params"]
  /\ now = 0
  /\ \E n \in 1..WorkerRows :
       /\ table = [i \in 1..n |-> NewRow(1, i)]
       /\ hist = [i \in 1..n |-> NoHistory]
  /\ lock = 0
  /\ disp = <<>>
  /\ task = [t \in WorkerSlots |-> IdleTask]
  /\ nAdmin = 0
  /\ last = "none"
  /\ tx = TxIdle /\ pool = PoolIdle /\ ro = RoIdle /\ sch = SchIdle /\ loop = LoopIdle
  /\ dlife = LifeOff /\ queue = QueueOff
  /\ \E config \in WorkerConfigs : wpool = NewWorkerPool(config)

\* start(): _running, _stop_event and _semaphore are set up and _main_loop
\* is entered
WpStart ==
  /\ wpool.pc = "new"
  /\ wpool' = [wpool EXCEPT !.running = TRUE, !.pc = "while"]
  /\ UNCHANGED <<sched, tx, pool, ro, sch, loop, dlife, queue>>

\* stop() on a running pool: _running = False and the event is set
WpStop ==
  /\ wpool.pc # "new"
  /\ wpool.running
  /\ wpool' = [wpool EXCEPT !.running = FALSE, !.stop_event = TRUE,
                            !.at_stop = {task[t].id : t \in InFlight}]
  /\ UNCHANGED <<sched, tx, pool, ro, sch, loop, dlife, queue>>

\* _main_loop: while self._running, then _poll_and_assign up to the read:
\* no read when no worker is available
WpPollStart ==
  /\ wpool.pc = "while"
  /\ wpool' =
       IF ~wpool.running THEN [wpool EXCEPT !.pc = "finally"]
       ELSE LET in_flight == Cardinality(wpool.running_tasks)
                available_workers == wpool.config.pool_size - in_flight
            IN  IF available_workers <= 0
                THEN [wpool EXCEPT !.in_flight = in_flight, !.limit = 0,
                                   !.jobs = <<>>, !.pc = "sleep"]
                ELSE [wpool EXCEPT
                        !.in_flight = in_flight,
                        !.limit = batch_size(available_workers,
                                             wpool.config.claim_batch_size),
                        !.jobs = <<>>, !.pc = "read"]
  /\ UNCHANGED <<sched, tx, pool, ro, sch, loop, dlife, queue>>

\* _get_pending_jobs(batch_size) in its read-only transaction
WpRead ==
  /\ wpool.pc = "read"
  /\ lock = 0
  /\ LET jobs == get_pending_jobs(table, wpool.limit)
     IN  wpool' = [wpool EXCEPT !.jobs = jobs,
                                !.pc = IF jobs = <<>> THEN "sleep" ELSE "assign"]
  /\ UNCHANGED <<sched, tx, pool, ro, sch, loop, dlife, queue>>

\* for job in jobs: JobInfo(...), a slot of the semaphore, create_task and
\* _running_tasks.add; a TypeError of JobInfo ends the cycle in the handler
\* of _main_loop
WpAssign(t) ==
  /\ wpool.pc = "assign"
  /\ IF ~jobinfo_constructs(scope.jobinfo)
     THEN /\ wpool' = [wpool EXCEPT !.jobs = <<>>, !.pc = "sleep"]
          /\ last' = "TypeError"
          /\ task' = task
     ELSE /\ Cardinality(wpool.holding) < wpool.config.pool_size
          /\ t \notin wpool.running_tasks
          /\ \A u \in WorkerSlots : u < t => u \in wpool.running_tasks
          /\ task' = [task EXCEPT ![t] =
                        [pc |-> "polled", id |-> Head(wpool.jobs).id,
                         retry_count |-> Head(wpool.jobs).retry_count]]
          /\ wpool' = [wpool EXCEPT
                         !.holding = @ \cup {t},
                         !.running_tasks = @ \cup {t},
                         !.jobs = Tail(@),
                         !.pc = IF Len(wpool.jobs) = 1 THEN "sleep" ELSE "assign"]
          /\ last' = "none"
  /\ UNCHANGED <<cron, scope, now, table, lock, disp, nAdmin, hist, tx, pool, ro, sch,
                 loop, dlife, queue>>

\* _execute_job, finally: the slot goes back once execute is over
WpExecuteJobExit(t) ==
  /\ t \in wpool.holding
  /\ task[t].pc = "idle"
  /\ wpool' = [wpool EXCEPT !.holding = @ \ {t}]
  /\ UNCHANGED <<sched, tx, pool, ro, sch, loop, dlife, queue>>

\* _on_task_done: the finished task leaves _running_tasks
WpOnTaskDone(t) ==
  /\ t \in wpool.running_tasks
  /\ t \in Done
  /\ wpool' = [wpool EXCEPT !.running_tasks = @ \ {t}]
  /\ UNCHANGED <<sched, tx, pool, ro, sch, loop, dlife, queue>>

\* wait_for(_stop_event.wait(), poll_interval_seconds): break when the
\* event is set, the next cycle after the timeout otherwise
WpSleepEnd ==
  /\ wpool.pc = "sleep"
  /\ wpool' = [wpool EXCEPT !.pc = IF wpool.stop_event THEN "finally" ELSE "while"]
  /\ UNCHANGED <<sched, tx, pool, ro, sch, loop, dlife, queue>>

\* start(), finally: _wait_running_tasks returns at once without tasks and
\* gathers them otherwise
WpFinally ==
  /\ wpool.pc = "finally"
  /\ wpool' = IF wpool.running_tasks = {}
              THEN [wpool EXCEPT !.running = FALSE, !.pc = "returned"]
              ELSE [wpool EXCEPT !.gathered = wpool.running_tasks, !.pc = "gather"]
  /\ UNCHANGED <<sched, tx, pool, ro, sch, loop, dlife, queue>>

\* shutdown_timeout_seconds runs out while tasks are gathered
WpTimeout ==
  /\ wpool.pc = "gather"
  /\ ~wpool.elapsed
  /\ ~(wpool.gathered \subseteq Done)
  /\ wpool' = [wpool EXCEPT !.elapsed = TRUE]
  /\ UNCHANGED <<sched, tx, pool, ro, sch, loop, dlife, queue>>

\* _wait_running_tasks is over: after the timeout the unfinished tasks are
\* cancelled (their rows stay as they are); then _running = False and
\* start() returns
WpReturn ==
  /\ wpool.pc = "gather"
  /\ wait_over(wpool.gathered, Done, wpool.elapsed)
  /\ LET unfinished == wpool.gathered \ Done
     IN  /\ task' = [t \in DOMAIN task |-> IF t \in unfinished THEN IdleTask ELSE task[t]]
         /\ wpool' = [wpool EXCEPT !.cancelled = unfinished,
                                   !.holding = @ \ unfinished,
                                   !.running = FALSE,
                                   !.pc = "returned"]
  /\ last' = "none"
  /\ UNCHANGED <<cron, scope, now, table, lock, disp, nAdmin, hist, tx, pool, ro, sch,
                 loop, dlife, queue>>

\* the steps of executor task t of the pool; its handler returns a result
WorkerStep(t) ==
  /\ wpool.pc # "returned"
  /\ Claim(t) \/ InvokeHandler(t) \/ HandlerExit(t, "ok")

NextWorker ==
  \/ WpStart
  \/ WpStop
  \/ WpPollStart
  \/ WpRead
  \/ \E t \in WorkerSlots : WpAssign(t)
  \/ \E t \in WorkerSlots : WpExecuteJobExit(t)
  \/ \E t \in WorkerSlots : WpOnTaskDone(t)
  \/ WpSleepEnd
  \/ WpFinally
  \/ WpTimeout
  \/ WpReturn
  \/ \E t \in WorkerSlots : WorkerStep(t)

\* the event loop runs the pool's loop and every task it created, and the
\* shutdown timeout runs out when the tasks do not finish
SpecWorker ==
  /\ InitWorker
  /\ [][NextWorker]_vars
  /\ WF_vars(WpStart \/ WpPollStart \/ WpRead \/ WpSleepEnd \/ WpFinally
               \/ WpTimeout \/ WpReturn \/ \E t \in WorkerSlots : WpAssign(t))
  /\ \A t \in WorkerSlots : WF_vars(WpExecuteJobExit(t) \/ WpOnTaskDone(t))

(***************************************************************************)
(* One Dispatcher object: calls of start() and stop() and the main loop    *)
(* of the one start() that runs it.                                        *)
(*   dlife.pc          position of the start() that runs the loop          *)
(*   dlife.running     _running (is_running)                               *)
(*   dlife.stop_event  _stop_event is set                                  *)
(*   dlife.left        ticks left of the sleep in progress                 *)
(*   dlife.iterations  iterations started                                  *)
(*   dlife.raised      what the last iteration raised into _main_loop      *)
(*   dlife.loops       main loops entered                                  *)
(*   dlife.last        what the last call of start() / stop() did          *)
(***************************************************************************)
\* how an iteration ends: in the sleep it computed, or in the sleep of one
\* of the except clauses of _main_loop
IterationEnds ==
  {"none", "ConnectionPoolExhaustedError", "TransactionError", "QueryExecutionError",
   "Exception"}

\* sleep that lasts until its timeout whatever the event
sleep_over_at_timeout(left, stop_event) == left = 0

\* _sleep: wait_for(_stop_event.wait(), timeout=seconds) is over when the
\* event is set or the timeout ran out
sleep_over(left, stop_event) == left = 0 \/ stop_event

NewDispatcher ==
  [pc |-> "new", running |-> FALSE, stop_event |-> FALSE, left |-> 0,
   iterations |-> 0, loops |-> 0, raised |-> "none", last |-> "none"]

InitLife ==
  /\ NoScheduler
  /\ tx = TxIdle /\ pool = PoolIdle /\ ro = RoIdle /\ sch = SchIdle /\ loop = LoopIdle
  /\ wpool = WpOff /\ queue = QueueOff
  /\ dlife = NewDispatcher

\* a call of start(): it returns at once on a running dispatcher; the first
\* call sets _running, makes the event and enters _main_loop
DlStart ==
  /\ dlife.pc = "new" \/ dlife.running
  /\ dlife' = IF dlife.running
              THEN [dlife EXCEPT !.last = "start: already running"]
              ELSE [dlife EXCEPT !.running = TRUE, !.stop_event = FALSE,
                                 !.loops = @ + 1, !.pc = "while",
                                 !.last = "start: loop entered"]
  /\ UNCHANGED <<sched, tx, pool, ro, sch, loop, wpool, queue>>

\* a call of stop(): nothing on a dispatcher that is not running, else
\* _running = False and the event is set
DlStop ==
  /\ dlife' = IF ~dlife.running
              THEN [dlife EXCEPT !.last = "stop: not running"]
              ELSE [dlife EXCEPT !.running = FALSE, !.stop_event = TRUE,
                                 !.last = "stop: stopping"]
  /\ UNCHANGED <<sched, tx, pool, ro, sch, loop, wpool, queue>>

\* _main_loop: while self._running; after the loop the finally block of
\* start() clears _running and start() returns
DlWhile ==
  /\ dlife.pc = "while"
  /\ dlife.running => dlife.iterations < MaxIterations
  /\ dlife' = IF dlife.running
              THEN [dlife EXCEPT !.iterations = @ + 1, !.pc = "iteration"]
              ELSE [dlife EXCEPT !.running = FALSE, !.pc = "returned"]
  /\ UNCHANGED <<sched, tx, pool, ro, sch, loop, wpool, queue>>

\* the iteration polls and processes the definitions, or raises; either
\* way it ends in _sleep(seconds)
DlIterationEnd(end, seconds) ==
  /\ dlife.pc = "iteration"
  /\ dlife' = [dlife EXCEPT !.left = seconds, !.raised = end, !.pc = "sleep"]
  /\ UNCHANGED <<sched, tx, pool, ro, sch, loop, wpool, queue>>

\* the clock ticks during a sleep that is not over
DlTick ==
  /\ dlife.pc = "sleep"
  /\ ~sleep_over(dlife.left, dlife.stop_event)
  /\ dlife.left > 0
  /\ dlife' = [dlife EXCEPT !.left = @ - 1]
  /\ UNCHANGED <<sched, tx, pool, ro, sch, loop, wpool, queue>>

\* _sleep returns
DlWake ==
  /\ dlife.pc = "sleep"
  /\ sleep_over(dlife.left, dlife.stop_event)
  /\ dlife' = [dlife EXCEPT !.pc = "while"]
  /\ UNCHANGED <<sched, tx, pool, ro, sch, loop, wpool, queue>>

\* the steps of the start() that runs the loop
DlLoopStep ==
  \/ DlWhile
  \/ \E end \in IterationEnds, seconds \in 1..MaxSleepTicks : DlIterationEnd(end, seconds)
  \/ DlTick
  \/ DlWake

NextLife == DlStart \/ DlStop \/ DlLoopStep

\* the event loop runs the main loop, and the clock ticks
SpecLife == InitLife /\ [][NextLife]_vars /\ WF_vars(DlLoopStep)

(***************************************************************************)
(* The admin retry call, POST /api/jobs/{job_id}/retry, for any job_id, on *)
(* a table whose rows the dispatcher emits and one executor works off.     *)
(***************************************************************************)
\* admin.sql get_job_by_id: the row of the id, if any
get_job_by_id(tbl, job_id) == IF job_id \in Ids(tbl) THEN <<tbl[job_id]>> ELSE <<>>

\* JobHandler.retry: what it raises and the table it leaves
retry(tbl, job_id) ==
  LET row == get_job_by_id(tbl, job_id)
  IN  IF row = <<>> THEN [raised |-> "JobNotFoundError", table |-> tbl]
      ELSE IF ~retry_allowed(row[1].status)
           THEN [raised |-> "JobStatusError", table |-> tbl]
           ELSE [raised |-> "none", table |-> retry_job(tbl, job_id)]

\* route that answers every error with 400
retry_job_response_400(raised) ==
  IF raised = "none" THEN "200 JobResponse" ELSE "400 " \o raised

\* router retry_job: JobNotFoundError -> 404, JobStatusError -> 400
retry_job_response(raised) ==
  CASE raised = "JobNotFoundError" -> "404 JobNotFoundError"
    [] raised = "JobStatusError" -> "400 JobStatusError"
    [] OTHER -> "200 JobResponse"

AdminDeployment ==
  [tasks |-> 1, dispatchers |-> 1, rows |-> 2, retries |-> 2,
   jobinfo |-> "handler_params"]

InitAdmin ==
  /\ cron = [j \in {1} |-> [allow_overlap |-> TRUE, max_retry |-> 1]]
  /\ Start(AdminDeployment)
  /\ tx = TxIdle /\ pool = PoolIdle /\ ro = RoIdle /\ sch = SchIdle /\ loop = LoopIdle
  /\ wpool = WpOff /\ dlife = LifeOff /\ queue = QueueOff

\* POST /api/jobs/{job_id}/retry: JobHandler.retry in one write
\* transaction, and the response of the route
AdminRetryCall(job_id) ==
  /\ lock = 0
  /\ nAdmin < scope.retries
  /\ nAdmin' = nAdmin + 1
  /\ LET r == retry(table, job_id)
     IN  /\ table' = r.table
         /\ hist' = IF r.raised = "none" THEN [hist EXCEPT ![job_id] = OtherHistory]
                    ELSE hist
         /\ last' = retry_job_response(r.raised)
  /\ UNCHANGED <<cron, scope, now, lock, disp, task, tx, pool, ro, sch, loop, wpool,
                 dlife, queue>>

NextAdmin ==
  \/ Tick
  \/ \E d \in DOMAIN disp, j \in CronJobs : DispShouldRun(d, j)
  \/ \E d \in DOMAIN disp : DispCreate(d)
  \/ \E t \in DOMAIN task : Poll(t)
  \/ \E t \in DOMAIN task : Claim(t)
  \/ \E t \in DOMAIN task : InvokeHandler(t)
  \/ \E t \in DOMAIN task, o \in HandlerOutcomes : HandlerExit(t, o)
  \/ \E t \in DOMAIN task : RetryDecision(t)
  \/ \E job_id \in 1..(Len(table) + 1) : AdminRetryCall(job_id)

SpecAdmin == InitAdmin /\ [][NextAdmin]_vars

(***************************************************************************)
(* The queue dispatcher: one QueueDispatcher object consuming the          *)
(* adapter's stream.  Every storage call and every adapter call is a step  *)
(* that returns or raises; the sets complete_calls and abandon_calls       *)
(* record the messages the adapter was invoked with, rows the messages     *)
(* whose PENDING execution row is committed, raised the error of each      *)
(* message's processing.                                                   *)
(***************************************************************************)
Messages == 1..MaxMessages

\* outcomes of _get_job_by_handler, _create_event_execution and of a call
\* of the adapter (KafkaAdapter: consumer.commit())
LookupOutcomes == {"found", "none", "QueryExecutionError"}
InsertOutcomes == {"inserted", "ExecutionCreationError", "TransactionError"}
AdapterOutcomes == {"returned", "KafkaError"}

\* QueueDispatcher.__init__
NewQueueDispatcher ==
  [pc |-> "new", running |-> FALSE, stopped |-> FALSE, received |-> 0,
   has_job_id |-> FALSE, rows |-> {}, complete_calls |-> {}, abandon_calls |-> {},
   raised |-> [m \in Messages |-> "none"], error |-> "none"]

InitQueue ==
  /\ NoScheduler
  /\ tx = TxIdle /\ pool = PoolIdle /\ ro = RoIdle /\ sch = SchIdle /\ loop = LoopIdle
  /\ wpool = WpOff /\ dlife = LifeOff
  /\ queue = NewQueueDispatcher

QueueUnchanged ==
  UNCHANGED <<sched, tx, pool, ro, sch, loop, wpool, dlife>>

\* start(): _running set, adapter connected, _main_loop entered
QdStart ==
  /\ queue.pc = "new"
  /\ queue' = [queue EXCEPT !.pc = "receive", !.running = TRUE]
  /\ QueueUnchanged

\* stop(): _running cleared, adapter disconnected
QdStop ==
  /\ queue.running
  /\ queue' = [queue EXCEPT !.running = FALSE, !.stopped = TRUE]
  /\ QueueUnchanged

\* async for message in receive(): the next message, with or without job_id
QdReceive(job_id_given) ==
  /\ queue.pc = "receive"
  /\ queue.running
  /\ queue.received < MaxMessages
  /\ queue' = [queue EXCEPT !.received = @ + 1, !.has_job_id = job_id_given,
                            !.pc = IF job_id_given THEN "insert" ELSE "lookup"]
  /\ QueueUnchanged

\* the stream ends after disconnect, or `if not self._running: break`;
\* start() returns through its finally block
QdLoopEnd ==
  /\ queue.pc = "receive"
  /\ ~queue.running
  /\ queue' = [queue EXCEPT !.pc = "returned"]
  /\ QueueUnchanged

\* _process_message: _get_job_by_handler
QdLookup(outcome) ==
  /\ queue.pc = "lookup"
  /\ queue' = IF outcome = "QueryExecutionError"
              THEN [queue EXCEPT !.pc = "except", !.raised[queue.received] = outcome]
              ELSE [queue EXCEPT !.pc = "insert"]
  /\ QueueUnchanged

\* _process_message: _create_event_execution in its write transaction;
\* the row exists once the transaction has committed
QdInsert(outcome) ==
  /\ queue.pc = "insert"
  /\ queue' = IF outcome = "inserted"
              THEN [queue EXCEPT !.pc = "complete", !.rows = @ \cup {queue.received}]
              ELSE [queue EXCEPT !.pc = "except", !.raised[queue.received] = outcome]
  /\ QueueUnchanged

\* adapter.complete(message), inside the try block
QdComplete(outcome) ==
  /\ queue.pc = "complete"
  /\ queue' = IF outcome = "returned"
              THEN [queue EXCEPT !.pc = "receive",
                                 !.complete_calls = @ \cup {queue.received}]
              ELSE [queue EXCEPT !.pc = "except",
                                 !.complete_calls = @ \cup {queue.received},
                                 !.raised[queue.received] = outcome]
  /\ QueueUnchanged

\* except Exception: log, adapter.abandon(message); an error of abandon
\* leaves _main_loop, and start() raises it after its finally block
QdAbandon(outcome) ==
  /\ queue.pc = "except"
  /\ queue' = IF outcome = "returned"
              THEN [queue EXCEPT !.pc = "receive",
                                 !.abandon_calls = @ \cup {queue.received}]
              ELSE [queue EXCEPT !.pc = "raised", !.running = FALSE, !.error = outcome,
                                 !.abandon_calls = @ \cup {queue.received}]
  /\ QueueUnchanged

NextQueue ==
  \/ QdStart
  \/ QdStop
  \/ \E job_id_given \in BOOLEAN : QdReceive(job_id_given)
  \/ QdLoopEnd
  \/ \E outcome \in LookupOutcomes : QdLookup(outcome)
  \/ \E outcome \in InsertOutcomes : QdInsert(outcome)
  \/ \E outcome \in AdapterOutcomes : QdComplete(outcome)
  \/ \E outcome \in AdapterOutcomes : QdAbandon(outcome)

SpecQueue == InitQueue /\ [][NextQueue]_vars

(***************************************************************************)
(* One executor task and a handler that raises on every invocation: the    *)
(* dispatcher emits executions of one definition whose max_retry is any    *)
(* value from 0, the task polls, claims, invokes and fails.  No admin      *)
(* retry.                                                                  *)
(***************************************************************************)
FailDeployment ==
  [tasks |-> 1, dispatchers |-> 1, rows |-> FailRows, retries |-> 0,
   jobinfo |-> "handler_params"]

InitFail ==
  /\ \E m \in 0..MaxRetryBudget : cron = [j \in {1} |-> [allow_overlap |-> TRUE, max_retry |-> m]]
  /\ Start(FailDeployment)
  /\ tx = TxIdle /\ pool = PoolIdle /\ ro = RoIdle /\ sch = SchIdle /\ loop = LoopIdle
  /\ wpool = WpOff /\ dlife = LifeOff /\ queue = QueueOff

\* the steps of executor task t on the way of a handler that raises
FailStep(t) ==
  Claim(t) \/ InvokeHandler(t) \/ HandlerExit(t, "fail") \/ RetryDecision(t)

NextFail ==
  \/ Tick
  \/ \E d \in DOMAIN disp, j \in CronJobs : DispShouldRun(d, j)
  \/ \E d \in DOMAIN disp : DispCreate(d)
  \/ \E t \in DOMAIN task : Poll(t)
  \/ \E t \in DOMAIN task : FailStep(t)

\* the pool's loop polls again and again while it runs, and the event loop
\* runs the task it created
SpecFail ==
  /\ InitFail
  /\ [][NextFail]_vars
  /\ WF_vars(\E t \in DOMAIN task : Poll(t))
  /\ WF_vars(\E t \in DOMAIN task : FailStep(t))

(***************************************************************************)
(* Worker pools that keep polling, handlers that return, raise or time     *)
(* out, storage calls that succeed, and no admin retry.                    *)
(***************************************************************************)
TermDeployment ==
  [tasks |-> TermTasks, dispatchers |-> 1, rows |-> TermRows, retries |-> 0,
   jobinfo |-> "handler_params"]

InitTerm ==
  /\ \E m \in 0..MaxRetryBudget : cron = [j \in {1} |-> [allow_overlap |-> TRUE, max_retry |-> m]]
  /\ Start(TermDeployment)
  /\ tx = TxIdle /\ pool = PoolIdle /\ ro = RoIdle /\ sch = SchIdle /\ loop = LoopIdle
  /\ wpool = WpOff /\ dlife = LifeOff /\ queue = QueueOff

\* the steps of executor task t from its claim to its return
TermStep(t) ==
  \/ Claim(t)
  \/ InvokeHandler(t)
  \/ ResolveFail(t)
  \/ \E o \in HandlerOutcomes : HandlerExit(t, o)
  \/ RetryDecision(t)

NextTerm ==
  \/ Tick
  \/ \E d \in DOMAIN disp, j \in CronJobs : DispShouldRun(d, j)
  \/ \E d \in DOMAIN disp : DispCreate(d)
  \/ \E t \in DOMAIN task : Poll(t)
  \/ \E t \in DOMAIN task : TermStep(t)

\* the pools' loops poll again and again, and the event loop runs every
\* task they created
SpecTerm ==
  /\ InitTerm
  /\ [][NextTerm]_vars
  /\ WF_vars(\E t \in DOMAIN task : Poll(t))
  /\ \A t \in 1..TermTasks : WF_vars(TermStep(t))

(***************************************************************************)
(* Executors that can end without a status write, and status writes that   *)
(* raise.  A worker crash, the cancellation of the task at the shutdown    *)
(* timeout (CancelledError passes every except clause of execute) and an   *)
(* error raised by _fail_execution / _timeout_execution (which leaves      *)
(* execute and is logged by _execute_job) all end the task with the row    *)
(* as committed before: an open status transaction is rolled back, which   *)
(* no other transaction can tell from a task that ended before its first   *)
(* statement.                                                              *)
(***************************************************************************)
FaultDeployment ==
  [tasks |-> FaultTasks, dispatchers |-> 1, rows |-> 1, retries |-> 1,
   jobinfo |-> "handler_params"]

InitFault ==
  /\ \E def \in CronDefs : cron = [j \in {1} |-> def]
  /\ Start(FaultDeployment)
  /\ tx = TxIdle /\ pool = PoolIdle /\ ro = RoIdle /\ sch = SchIdle /\ loop = LoopIdle
  /\ wpool = WpOff /\ dlife = LifeOff /\ queue = QueueOff

EndCauses == {"crashed", "cancelled", "status write raised"}

\* the executor task ends between its claim and its status write
ExecutorEnds(t, cause) ==
  /\ task[t].pc \in {"claimed", "handler"}
  /\ cause = "cancelled" => task[t].pc = "handler"
  /\ task' = [task EXCEPT ![t] = IdleTask]
  /\ hist' = [hist EXCEPT ![task[t].id] = OtherHistory]
  /\ last' = cause
  /\ UNCHANGED <<cron, scope, now, table, lock, disp, nAdmin, tx, pool, ro, sch, loop,
                 wpool, dlife, queue>>

\* step 4: the handler returned and _complete_execution raised: the except
\* clause of the error runs its status write, first statement
CompleteFails(t, error) ==
  /\ task[t].pc = "handler"
  /\ lock = 0
  /\ LET id == task[t].id
         path == except_clause(error)
     IN  /\ table' = IF path = "timeout" THEN timeout_execution(table, id)
                     ELSE fail_execution(table, id)
         /\ lock' = t
         /\ task' = [task EXCEPT ![t].pc = IF path = "timeout" THEN "timing" ELSE "failing"]
         /\ hist' = [hist EXCEPT ![id] =
                       IF Scen(@.scen, "ok") = "other" THEN OtherHistory
                       ELSE [@ EXCEPT !.scen = "ok"]]
         /\ last' = "none"
  /\ UNCHANGED <<cron, scope, now, disp, nAdmin, tx, pool, ro, sch, loop, wpool, dlife, queue>>

NextFault ==
  \/ Tick
  \/ \E d \in DOMAIN disp, j \in CronJobs : DispShouldRun(d, j)
  \/ \E d \in DOMAIN disp : DispCheck(d)
  \/ \E d \in DOMAIN disp : DispCreate(d)
  \/ \E t \in DOMAIN task : Poll(t)
  \/ \E t \in DOMAIN task : Claim(t)
  \/ \E t \in DOMAIN task : InvokeHandler(t)
  \/ \E t \in DOMAIN task : ResolveFail(t)
  \/ \E t \in DOMAIN task, o \in HandlerOutcomes : HandlerExit(t, o)
  \/ \E t \in DOMAIN task : RetryDecision(t)
  \/ \E id \in Ids(table) : AdminRetry(id)
  \/ \E t \in DOMAIN task, cause \in EndCauses : ExecutorEnds(t, cause)
  \/ \E t \in DOMAIN task, error \in WriteErrors : CompleteFails(t, error)

SpecFault == InitFault /\ [][NextFault]_vars

(***************************************************************************)
(* Executor.execute, steps 2 and 3, for definitions whose handler_name may *)
(* not be registered and whose handler_params may not deserialize.  One    *)
(* executor task; a resolved handler raises.                               *)
(***************************************************************************)
\* job_executions / cron_jobs.handler_params as the worker reads it: NULL, a
\* JSON object HandlerParams accepts, a JSON object whose id is not an int,
\* JSON that is not an object, text that is not JSON
ParamsTexts == {"NULL", "{\"id\": 1}", "{\"id\": \"x\"}", "[1]", "{id"}

\* a lookup that finds every handler and params that always deserialize
resolve_lenient(registered, handler_params) == [error |-> "none", error_message |-> "none"]

\* get_handler, then json.loads(handler_params or '{}') and
\* HandlerParams(**params_dict): the error of the first step that fails and
\* the message handed to _fail_execution
resolve(registered, handler_params) ==
  CASE ~registered ->
         [error |-> "HandlerNotFoundError", error_message |-> "Handler not found"]
    [] registered /\ handler_params = "{id" ->
         [error |-> "JSONDecodeError", error_message |-> "Invalid handler_params"]
    [] registered /\ handler_params \in {"[1]", "{\"id\": \"x\"}"} ->
         [error |-> "Exception", error_message |-> "Invalid handler_params"]
    [] OTHER -> [error |-> "none", error_message |-> "none"]

InitResolve ==
  /\ \E m \in 0..MaxRetryBudget, registered \in BOOLEAN, handler_params \in ParamsTexts :
       cron = [j \in {1} |-> [allow_overlap |-> TRUE, max_retry |-> m,
                              registered |-> registered,
                              handler_params |-> handler_params]]
  /\ Start(FailDeployment)
  /\ tx = TxIdle /\ pool = PoolIdle /\ ro = RoIdle /\ sch = SchIdle /\ loop = LoopIdle
  /\ wpool = WpOff /\ dlife = LifeOff /\ queue = QueueOff

\* steps 2-3 of execute: on an error _fail_execution runs its first
\* statement with the error's message, otherwise the handler is invoked
Resolve(t) ==
  /\ task[t].pc = "claimed"
  /\ LET id == task[t].id
         def == cron[table[id].job_id]
         r == resolve(def.registered, def.handler_params)
     IN  IF r.error = "none"
         THEN InvokeHandler(t)
         ELSE /\ lock = 0
              /\ table' = [fail_execution(table, id) EXCEPT
                             ![id].error_message = r.error_message]
              /\ lock' = t
              /\ task' = [task EXCEPT ![t].pc = "failing"]
              /\ hist' = [hist EXCEPT ![id] = OtherHistory]
              /\ last' = "none"
              /\ UNCHANGED <<cron, scope, now, disp, nAdmin, tx, pool, ro, sch, loop,
                             wpool, dlife, queue>>

NextResolve ==
  \/ Tick
  \/ \E d \in DOMAIN disp, j \in CronJobs : DispShouldRun(d, j)
  \/ \E d \in DOMAIN disp : DispCreate(d)
  \/ \E t \in DOMAIN task : Poll(t)
  \/ \E t \in DOMAIN task : Claim(t)
  \/ \E t \in DOMAIN task : Resolve(t)
  \/ \E t \in DOMAIN task : HandlerExit(t, "fail")
  \/ \E t \in DOMAIN task : RetryDecision(t)

SpecResolve == InitResolve /\ [][NextResolve]_vars

(***************************************************************************)
(* A worker pool whose database has no connection left now and then:       *)
(* acquire raises ConnectionPoolExhaustedError in _get_pending_jobs (the   *)
(* poll) or in _claim_execution (the claim), before any statement.         *)
(***************************************************************************)
\* a loop that lets the error of a poll cycle through
poll_error_passes(error) == FALSE

\* _main_loop: `except Exception` around _poll_and_assign
poll_error_caught(error) == error # "CancelledError"

InitExhaust ==
  /\ cron = [j \in {1} |-> [allow_overlap |-> TRUE, max_retry |-> 3]]
  /\ scope = [rows |-> ExhaustRows, retries |-> 0, jobinfo |-> "handler_params"]
  /\ now = 0
  /\ table = [i \in 1..ExhaustRows |-> NewRow(1, i)]
  /\ hist = [i \in 1..ExhaustRows |-> NoHistory]
  /\ lock = 0
  /\ disp = <<>>
  /\ task = [t \in WorkerSlots |-> IdleTask]
  /\ nAdmin = 0
  /\ last = "none"
  /\ tx = TxIdle /\ pool = PoolIdle /\ ro = RoIdle /\ sch = SchIdle /\ loop = LoopIdle
  /\ dlife = LifeOff /\ queue = QueueOff
  /\ wpool = NewWorkerPool([pool_size |-> MaxWorkers, claim_batch_size |-> MaxBatch])

\* _get_pending_jobs: the connection cannot be acquired; the error leaves
\* _poll_and_assign and is logged by _main_loop, which goes on to its sleep
WpReadFails ==
  /\ wpool.pc = "read"
  /\ wpool' = [wpool EXCEPT
                 !.pc = IF poll_error_caught("ConnectionPoolExhaustedError")
                        THEN "sleep" ELSE "finally"]
  /\ last' = "ConnectionPoolExhaustedError: poll"
  /\ UNCHANGED <<cron, scope, now, table, lock, disp, task, nAdmin, hist, tx, pool, ro, sch,
                 loop, dlife, queue>>

\* step 1 of execute: the connection for _claim_execution cannot be
\* acquired; the error leaves execute and is logged by _execute_job
ClaimFails(t) ==
  /\ task[t].pc = "polled"
  /\ task' = [task EXCEPT ![t] = IdleTask]
  /\ last' = "ConnectionPoolExhaustedError: claim"
  /\ UNCHANGED <<cron, scope, now, table, lock, disp, nAdmin, hist, tx, pool, ro, sch, loop,
                 wpool, dlife, queue>>

NextExhaust ==
  \/ NextWorker
  \/ WpReadFails
  \/ \E t \in WorkerSlots : wpool.pc # "returned" /\ ClaimFails(t)

\* the event loop runs the pool's loop and every task it created; nothing
\* is assumed about when connections are free
SpecExhaust ==
  /\ InitExhaust
  /\ [][NextExhaust]_vars
  /\ WF_vars(WpStart \/ WpPollStart \/ WpRead \/ WpReadFails \/ WpSleepEnd \/ WpFinally
               \/ WpTimeout \/ WpReturn \/ \E t \in WorkerSlots : WpAssign(t))
  /\ \A t \in WorkerSlots : WF_vars(WpExecuteJobExit(t) \/ WpOnTaskDone(t))

(***************************************************************************)
(* The gate of Dispatcher._main_loop: the enabled definitions are loaded,  *)
(* each one is validated and, when due, emitted, while the admin API       *)
(* enables and disables definitions.                                       *)
(*   loop.defs      cron_jobs: is_enabled and the interval of the          *)
(*                  expression in seconds (0: the expression does not      *)
(*                  parse)                                                 *)
(*   loop.config    DispatcherConfig                                       *)
(*   loop.clock     the reading of the clock of this iteration             *)
(*   loop.jobs      the list _poll_cron_jobs returned                      *)
(*   loop.enabled   the definitions that were enabled at the load          *)
(*   loop.rows      <<job_id, scheduled_time>> of the rows emitted so far  *)
(*   loop.emitted   definitions emitted a row for in this iteration        *)
(***************************************************************************)
\* expressions by the seconds between their instants; 0 does not parse, 30
\* is a six-field expression with a seconds field
CronIntervals == {0, 30, 60, 120}

GateConfigs ==
  {[poll_interval_seconds |-> 60, max_sleep_seconds |-> 300,
    min_cron_interval_seconds |-> m] : m \in {60, 120}}

\* dispatcher.sql get_enabled_jobs: the definitions with is_enabled = 1
get_enabled_jobs(defs) ==
  LET ids == {j \in DOMAIN defs : defs[j].is_enabled}
      seq[n \in 0..Cardinality(DOMAIN defs)] ==
        IF n = 0 THEN <<>>
        ELSE IF n \in ids THEN Append(seq[n - 1], [id |-> n, interval |-> defs[n].interval])
        ELSE seq[n - 1]
  IN  seq[Cardinality(DOMAIN defs)]

\* a validation that only parses the expression
validate_cron_interval_parse_only(interval, at, config) ==
  IF interval = 0 THEN "CronParseError" ELSE "none"

\* Dispatcher._validate_cron_interval: the two next instants after now
\* must be min_cron_interval_seconds apart
validate_cron_interval(interval, at, config) ==
  IF interval = 0 THEN "CronParseError"
  ELSE LET next1 == get_next(at, interval)
           next2 == get_next(next1, interval)
           interval_seconds == next2 - next1
       IN  IF interval_seconds < config.min_cron_interval_seconds
           THEN "CronIntervalTooShortError"
           ELSE "none"

InitGate ==
  /\ NoScheduler
  /\ tx = TxIdle /\ pool = PoolIdle /\ ro = RoIdle /\ sch = SchIdle
  /\ wpool = WpOff /\ dlife = LifeOff /\ queue = QueueOff
  /\ \E defs \in [1..GateJobs -> [is_enabled : BOOLEAN, interval : CronIntervals]],
        config \in GateConfigs :
       loop = [pc |-> "load", defs |-> defs, config |-> config, clock |-> 5,
               iteration |-> 1, jobs |-> <<>>, i |-> 1, enabled |-> {},
               rows |-> {}, emitted |-> {}]

\* admin API: CronHandler.toggle and update set is_enabled
GateSetEnabled(j, flag) ==
  /\ loop.defs[j].is_enabled # flag
  /\ loop' = [loop EXCEPT !.defs[j].is_enabled = flag]
  /\ UNCHANGED <<sched, tx, pool, ro, sch, wpool, dlife, queue>>

\* jobs = await self._poll_cron_jobs()
GateLoad ==
  /\ loop.pc = "load"
  /\ loop' = [loop EXCEPT !.jobs = get_enabled_jobs(loop.defs),
                          !.enabled = {j \in DOMAIN loop.defs : loop.defs[j].is_enabled},
                          !.i = 1, !.emitted = {},
                          !.pc = "for"]
  /\ UNCHANGED <<sched, tx, pool, ro, sch, wpool, dlife, queue>>

\* _process_cron_job(job) for a definition with allow_overlap: the
\* validation, the due test, the insert
GateProcess ==
  /\ loop.pc = "for"
  /\ loop.i <= Len(loop.jobs)
  /\ LET job == loop.jobs[loop.i]
         error == validate_cron_interval(job.interval, loop.clock, loop.config)
         r == should_run_at(loop.clock, job.interval, loop.config)
     IN  loop' = IF error # "none"
                 THEN [loop EXCEPT !.i = @ + 1]
                 ELSE IF r.run
                 THEN [loop EXCEPT !.rows = @ \cup {<<job.id, r.scheduled_time>>},
                                   !.emitted = @ \cup {job.id},
                                   !.i = @ + 1]
                 ELSE [loop EXCEPT !.i = @ + 1]
  /\ UNCHANGED <<sched, tx, pool, ro, sch, wpool, dlife, queue>>

\* the list is done: the iteration sleeps, and the next one starts
GateSleep ==
  /\ loop.pc = "for"
  /\ loop.i > Len(loop.jobs)
  /\ loop.iteration < GateIterations
  /\ loop' = [loop EXCEPT !.clock = @ + loop.config.poll_interval_seconds,
                          !.iteration = @ + 1, !.pc = "load"]
  /\ UNCHANGED <<sched, tx, pool, ro, sch, wpool, dlife, queue>>

NextGate ==
  \/ \E j \in 1..GateJobs, flag \in BOOLEAN : GateSetEnabled(j, flag)
  \/ GateLoad
  \/ GateProcess
  \/ GateSleep

SpecGate == InitGate /\ [][NextGate]_vars

(***************************************************************************)
(* Dispatcher._calculate_next_sleep as a function of the loaded list, the  *)
(* configuration and the reading of the clock.                             *)
(*   sch.jobs    the list, each definition by the interval of its          *)
(*               expression (0: the expression does not parse)             *)
(*   sch.sleep   the value returned                                        *)
(***************************************************************************)
\* DispatcherConfig: Field(ge=10, le=600) and Field(ge=60, le=600), the ends
\* of both ranges and the defaults
AcceptedConfigs ==
  {[poll_interval_seconds |-> p, max_sleep_seconds |-> m] :
     p \in {10, 60, 600}, m \in {60, 300, 600}}

\* a sleep without the floor of poll_interval_seconds
calculate_next_sleep_jobs_unfloored(at, jobs, config) ==
  IF jobs = <<>> THEN config.poll_interval_seconds
  ELSE LET waits == {get_next(at, jobs[i]) - at : i \in {k \in DOMAIN jobs : jobs[k] # 0}}
           candidates == {w \in waits : w > 0} \cup {config.max_sleep_seconds}
       IN  CHOOSE m \in candidates : \A w \in candidates : m <= w

\* Dispatcher._calculate_next_sleep for a list: poll_interval_seconds for
\* the empty list; otherwise min_wait starts at max_sleep_seconds and takes
\* every positive wait below it, a definition whose expression raises is
\* passed over, and the result is max(poll_interval, min(min_wait, max_sleep))
calculate_next_sleep_jobs(at, jobs, config) ==
  IF jobs = <<>> THEN config.poll_interval_seconds
  ELSE LET waits == {get_next(at, jobs[i]) - at : i \in {k \in DOMAIN jobs : jobs[k] # 0}}
           candidates == {w \in waits : w > 0} \cup {config.max_sleep_seconds}
           min_wait == CHOOSE m \in candidates : \A w \in candidates : m <= w
       IN  Max(config.poll_interval_seconds, Min(min_wait, config.max_sleep_seconds))

InitSleep ==
  /\ NoScheduler
  /\ tx = TxIdle /\ pool = PoolIdle /\ ro = RoIdle /\ loop = LoopIdle
  /\ wpool = WpOff /\ dlife = LifeOff /\ queue = QueueOff
  /\ \E n \in 0..SleepJobs : \E jobs \in [1..n -> CronIntervals] :
       \E config \in AcceptedConfigs, at \in {0, 5, 30, 59} :
         sch = [pc |-> "call", jobs |-> jobs, config |-> config, at |-> at, sleep |-> 0]

\* sleep_seconds = self._calculate_next_sleep(jobs)
SleepCall ==
  /\ sch.pc = "call"
  /\ sch' = [sch EXCEPT !.sleep = calculate_next_sleep_jobs(sch.at, sch.jobs, sch.config),
                        !.pc = "returned"]
  /\ UNCHANGED <<sched, tx, pool, ro, loop, wpool, dlife, queue>>

NextSleep == SleepCall

SpecSleep == InitSleep /\ [][NextSleep]_vars

(***************************************************************************)
(* QueueDispatcher._process_message on one message, with cron_jobs holding *)
(* one definition (id 1, handler "report").  Python values are records of  *)
(* their type and value: None, a str holding the JSON text of a dict, a    *)
(* dict (a function from keys to values).                                  *)
(*   queue.message    the QueueMessage; job_id 0 is None                   *)
(*   queue.cron_jobs  the definitions, handler_params as the column holds  *)
(*                    it: NULL or the JSON text the admin API stored       *)
(*   queue.rows       job_executions                                       *)
(*   queue.lookups    calls of _get_job_by_handler                         *)
(*   queue.raised     the error that left _process_message                 *)
(***************************************************************************)
ParamKeys == 1..MaxParamKeys

\* dicts with keys among ParamKeys and values 1 and 2
ParamDicts == UNION {[keys -> {1, 2}] : keys \in SUBSET ParamKeys}

PyNone == [type |-> "NoneType", value |-> <<>>]

PyDict(d) == [type |-> "dict", value |-> d]

\* json.dumps(d)
json_dumps(d) == [type |-> "str", value |-> d]

\* bool(v): None, the empty dict and the empty str are false; a JSON text
\* has at least its braces
truthy(v) == v.type = "str" \/ (v.type = "dict" /\ v.value # <<>>)

\* queue.sql get_job_by_handler_name, then dict(row)
get_job_by_handler_name(cron_jobs, handler_name) ==
  LET found == {j \in DOMAIN cron_jobs : cron_jobs[j].handler_name = handler_name}
  IN  IF found = {} THEN <<>>
      ELSE LET j == CHOOSE j \in found : \A k \in found : j <= k
           IN  <<[id |-> j, handler_params |-> cron_jobs[j].handler_params]>>

\* {**base_params, **message.params}: ** takes a mapping
merge_params(base_params, params) ==
  IF base_params.type # "dict" THEN [raised |-> "TypeError", value |-> <<>>]
  ELSE [raised |-> "none",
        value |-> [k \in DOMAIN base_params.value \cup DOMAIN params |->
                     IF k \in DOMAIN params THEN params[k] ELSE base_params.value[k]]]

\* _create_event_execution: params_json = json.dumps(params) if params else
\* None, and the row queue.sql create_event_execution inserts
create_event_execution(job_id, handler_name, params) ==
  [job_id |-> job_id, handler_name |-> handler_name, status |-> PENDING,
   handler_params |-> IF params # <<>> THEN json_dumps(params) ELSE PyNone]

\* QueueDispatcher._process_message
process_message(message, cron_jobs) ==
  LET looked_up == message.job_id = 0
      job == IF looked_up THEN get_job_by_handler_name(cron_jobs, message.handler_name)
             ELSE <<>>
      job_id == IF job # <<>> THEN job[1].id ELSE message.job_id
      base_params == IF job # <<>> /\ truthy(job[1].handler_params)
                     THEN job[1].handler_params
                     ELSE PyDict(<<>>)
      final_params == merge_params(base_params, message.params)
  IN  [lookups |-> IF looked_up THEN 1 ELSE 0,
       raised |-> final_params.raised,
       rows |-> IF final_params.raised = "none"
                THEN <<create_event_execution(job_id, message.handler_name,
                                              final_params.value)>>
                ELSE <<>>]

InitParams ==
  /\ NoScheduler
  /\ tx = TxIdle /\ pool = PoolIdle /\ ro = RoIdle /\ sch = SchIdle /\ loop = LoopIdle
  /\ wpool = WpOff /\ dlife = LifeOff
  /\ \E job_id \in 0..2, handler_name \in {"report", "other"}, params \in ParamDicts :
       \E stored \in {PyNone} \cup {json_dumps(d) : d \in ParamDicts \ {<<>>}} :
         queue = [pc |-> "received",
                  message |-> [job_id |-> job_id, handler_name |-> handler_name,
                               params |-> params],
                  cron_jobs |-> <<[handler_name |-> "report", handler_params |-> stored]>>,
                  rows |-> <<>>, lookups |-> 0, raised |-> "none"]

\* await self._process_message(message)
QdProcessMessage ==
  /\ queue.pc = "received"
  /\ LET r == process_message(queue.message, queue.cron_jobs)
     IN  queue' = [queue EXCEPT !.rows = r.rows, !.lookups = r.lookups,
                                !.raised = r.raised, !.pc = "processed"]
  /\ UNCHANGED <<sched, tx, pool, ro, sch, loop, wpool, dlife>>

NextParams == QdProcessMessage

SpecParams == InitParams /\ [][NextParams]_vars

(***************************************************************************)
(* Helpers of the properties.                                              *)
(***************************************************************************)
\* positions of a task between the return of acquire and its release
Holding == {"acquired", "body", "wrote", "committed"}

\* positions of a task inside its transaction (bound context)
InTransaction == {"body", "wrote", "committed"}

\* executor tasks between a won claim and the end of their status write
Holders(id) ==
  {t \in DOMAIN task :
     task[t].id = id /\ task[t].pc \in {"claimed", "handler", "failing", "timing"}}

(***************************************************************************)
(* C1 (SpecEmit): for every pair (job_id, scheduled_time) at most one      *)
(* execution row exists in every reachable state, however many replicas    *)
(* run _create_job_execution for the pair, and no such call ends in an     *)
(* error, whether or not it inserted the row.                              *)
(***************************************************************************)
C1_UniqueEmission ==
  /\ \A i, k \in Ids(table) :
       (table[i].job_id = table[k].job_id
          /\ table[i].scheduled_time = table[k].scheduled_time) => i = k
  /\ last # "JobCreationError"

\* one replica has just inserted the row of a pair while another replica is
\* about to run its insert for the same pair
C1_Witness ==
  /\ last = "true: inserted"
  /\ \E d \in DOMAIN disp :
       /\ disp[d].pc = "create"
       /\ check_execution_exists(table, disp[d].job, disp[d].sched) # {}

(***************************************************************************)
(* C2 (Spec): of the executor tasks that run execute for the same PENDING  *)
(* execution exactly one wins the claim: the one whose claim finds the row *)
(* PENDING takes it to RUNNING, every other one returns false at the claim *)
(* without touching the row or the handler, and a row never has two        *)
(* holders. In the winner the claim precedes the handler (the row is       *)
(* RUNNING while the handler runs) and the handler precedes the status     *)
(* write (a row leaves RUNNING only at the exit of the handler or of the   *)
(* handler lookup of its one holder).                                      *)
(***************************************************************************)
C2_AtMostOneWorker ==
  [][/\ \A id \in Ids(table') : Cardinality(Holders(id)') <= 1
     /\ \A t \in DOMAIN task :
          /\ (task[t].pc = "polled" /\ task'[t].pc = "claimed")
               => /\ table[task[t].id].status = PENDING
                  /\ table'[task[t].id].status = RUNNING
          /\ (task[t].pc = "polled" /\ task'[t].pc = "idle")
               => /\ table[task[t].id].status # PENDING
                  /\ table' = table
                  /\ hist' = hist
                  /\ last' = "false: not claimed"
          /\ task'[t].pc \in {"claimed", "handler"}
               => table'[task'[t].id].status = RUNNING
          /\ task'[t].pc = "handler" => hist'[task'[t].id].scen = "other"
                                          \/ hist'[task'[t].id].invoked >= 1
     /\ \A id \in Ids(table) :
          (table[id].status = RUNNING /\ table'[id].status # RUNNING)
            => \E t \in Holders(id) :
                 /\ task[t].pc \in {"claimed", "handler"}
                 /\ task'[t].pc \in {"idle", "failing", "timing"}]_vars

\* a second executor lost the claim for a row that the winner still holds
C2_Witness ==
  /\ last = "false: not claimed"
  /\ \E id \in Ids(table) : table[id].status = RUNNING /\ Holders(id) # {}

(***************************************************************************)
(* C3 (Spec): every status change of an execution is one of                *)
(* PENDING->RUNNING, RUNNING->SUCCESS, RUNNING->FAILED, RUNNING->TIMEOUT,  *)
(* FAILED->PENDING, TIMEOUT->PENDING; so SUCCESS never changes again, only *)
(* PENDING becomes RUNNING, and PENDING reaches no terminal status         *)
(* directly.                                                               *)
(***************************************************************************)
C3_StateMachine ==
  [][LET AllowedTransitions ==
           {<<PENDING, RUNNING>>, <<RUNNING, SUCCESS>>, <<RUNNING, FAILED>>,
            <<RUNNING, TIMEOUT>>, <<FAILED, PENDING>>, <<TIMEOUT, PENDING>>}
     IN  \A id \in Ids(table) :
           table'[id].status # table[id].status
             => <<table[id].status, table'[id].status>> \in AllowedTransitions]_vars

\* the admin retry action was refused on a row in SUCCESS
C3_Witness ==
  /\ last = "InvalidJobStatusError"
  /\ \E id \in Ids(table) : table[id].status = SUCCESS

(***************************************************************************)
(* C4 (Spec): when an attempt taken with retry_count r (the retry_count of *)
(* the JobInfo the executor runs with) ends in failure or timeout, the     *)
(* row's retry_count becomes r + 1, and the row returns to PENDING iff     *)
(* r + 1 < max_retry, otherwise stays FAILED / TIMEOUT.                    *)
(***************************************************************************)
C4_RetryRule ==
  [][\A t \in DOMAIN task :
       /\ (task[t].pc \in {"claimed", "handler"}
             /\ task'[t].pc \in {"failing", "timing"})
            => /\ table'[task[t].id].retry_count = task[t].retry_count + 1
               /\ table'[task[t].id].status
                    = IF task'[t].pc = "failing" THEN FAILED ELSE TIMEOUT
       /\ (task[t].pc \in {"failing", "timing"} /\ task'[t].pc = "idle")
            => /\ table'[task[t].id].retry_count = task[t].retry_count + 1
               /\ table'[task[t].id].status
                    = IF task[t].retry_count + 1
                           < max_retry(table[task[t].id].job_id)
                      THEN PENDING
                      ELSE table[task[t].id].status]_vars

(***************************************************************************)
(* C5 (Spec): with max_retry = 3, an execution whose handler fails on      *)
(* every attempt (and which no admin retry touches) is attempted three     *)
(* times and is then terminally FAILED with retry_count 3: it is never     *)
(* attempted a fourth time and its retry_count never passes 3.             *)
(***************************************************************************)
C5_RetryBudget ==
  \A id \in Ids(table) :
    (max_retry(table[id].job_id) = 3 /\ hist[id].scen = "fail")
      => /\ hist[id].invoked <= 3
         /\ table[id].retry_count <= 3

(***************************************************************************)
(* C6 (Spec): whenever an executor returns a row to PENDING after a failed *)
(* or timed-out attempt, the row's retry_count is at most the max_retry of *)
(* its definition, in every interleaving of executor tasks that polled     *)
(* the same row.                                                           *)
(***************************************************************************)
C6_RetryCountBound ==
  [][\A t \in DOMAIN task :
       (/\ task[t].pc \in {"failing", "timing"}
        /\ task'[t].pc = "idle"
        /\ table'[task[t].id].status = PENDING)
         => table'[task[t].id].retry_count
              <= max_retry(table[task[t].id].job_id)]_vars

(***************************************************************************)
(* C7 (Spec): a handler that overruns timeout_seconds leaves the row       *)
(* TIMEOUT with finished_at set and a "timed out" error message, and the   *)
(* retry rule follows; with max_retry = 2 and a handler that always        *)
(* overruns (and no admin retry), the row is TIMEOUT with retry_count 1    *)
(* after the first attempt, returns to PENDING, is TIMEOUT with            *)
(* retry_count 2 after the second attempt and stays there.                 *)
(***************************************************************************)
C7_Timeout ==
  [][/\ \A t \in DOMAIN task :
          (task[t].pc = "handler" /\ task'[t].pc = "timing")
            => /\ table'[task[t].id].status = TIMEOUT
               /\ table'[task[t].id].finished_at
               /\ table'[task[t].id].error_message = "timed out"
     /\ \A id \in Ids(table) :
          (/\ max_retry(table[id].job_id) = 2
           /\ hist[id].scen = "timeout"
           /\ hist'[id].scen = "timeout"
           /\ table[id].status = TIMEOUT)
            => /\ table[id].retry_count \in {1, 2}
               /\ table[id].retry_count = 2 => table'[id].status = TIMEOUT]_vars

(***************************************************************************)
(* C8 (SpecEmit): a call of _process_cron_job for a due definition with    *)
(* allow_overlap = false whose check finds a PENDING or RUNNING execution  *)
(* of the job ends there and creates no row; when the check finds every    *)
(* prior execution terminal, or when allow_overlap = true (no check), the  *)
(* call goes on to the insert, after which the row of its                  *)
(* (job_id, scheduled_time) exists.                                        *)
(***************************************************************************)
C8_OverlapSuppression ==
  [][\A d \in DOMAIN disp :
       /\ (disp[d].pc = "idle" /\ disp'[d].pc # "idle")
            => (disp'[d].pc = "create" <=> allow_overlap(disp'[d].job))
       /\ (disp[d].pc = "check" /\ disp'[d] # disp[d])
            => IF has_incomplete_execution(table, disp[d].job)
               THEN disp'[d].pc = "idle" /\ table' = table
               ELSE disp'[d] = [disp[d] EXCEPT !.pc = "create"]
       /\ (disp[d].pc = "create" /\ disp'[d] # disp[d])
            => /\ check_execution_exists(table', disp[d].job, disp[d].sched) # {}
               /\ check_execution_exists(table, disp[d].job, disp[d].sched) = {}
                    => Len(table') = Len(table) + 1]_vars

\* a call was skipped because an execution of the job is RUNNING
C8_Witness ==
  /\ last = "skipped"
  /\ \E id \in Ids(table) :
       ~allow_overlap(table[id].job_id) /\ table[id].status = RUNNING

(***************************************************************************)
(* C9 (SpecEmit): for a definition with allow_overlap = false the          *)
(* dispatcher never inserts a new PENDING execution at a moment when       *)
(* another execution of that definition is PENDING or RUNNING.             *)
(***************************************************************************)
C9_NoOverlapEver ==
  [][\A id \in Ids(table') \ Ids(table) :
       ~allow_overlap(table'[id].job_id)
         => ~has_incomplete_execution(table, table'[id].job_id)]_vars

(***************************************************************************)
(* C10 (SpecTx): when the body of a function wrapped over N >= 1 databases *)
(* (or of a ManagedTransaction block) raises after writing, every one of   *)
(* the N transactions is rolled back, no write of the body is visible on   *)
(* any database afterwards, and the caller receives the body's error       *)
(* (stated for exits in which no rollback itself fails; a database whose   *)
(* rollback fails is the only one left not rolled back).                   *)
(***************************************************************************)
C10_RollbackOnError ==
  (tx.pc = "done" /\ tx.exc = "ValueError")
    => /\ \A i \in DOMAIN tx.db :
            /\ tx.db[i].ended \in {"rolled back", "rollback failed"}
            /\ tx.db[i].ended = "rolled back"
                 => ~tx.db[i].visible /\ ~tx.db[i].pending
       /\ (\A i \in DOMAIN tx.db : tx.db[i].ended = "rolled back")
            => tx.raised = "ValueError"

\* a call over every database wrote on each of them, raised, and is over
C10_Witness ==
  /\ tx.pc = "done"
  /\ tx.exc = "ValueError"
  /\ Len(tx.db) = NumDbs
  /\ \A i \in DOMAIN tx.db : tx.db[i].wrote /\ tx.db[i].ended = "rolled back"

(***************************************************************************)
(* C11 (SpecTx): when a function wrapped by the decorator over its         *)
(* databases returns normally (and every commit goes through), each        *)
(* transaction is committed, the writes made on every database are visible *)
(* to later transactions, nothing is left pending, and the caller receives *)
(* the function's return value and no error.                               *)
(***************************************************************************)
C11_CommitOnReturn ==
  (/\ tx.pc = "done"
   /\ tx.mode = "decorator"
   /\ tx.exc = "none"
   /\ \A i \in DOMAIN tx.db : tx.db[i].ended # "commit failed")
    => /\ \A i \in DOMAIN tx.db :
            /\ tx.db[i].ended = "committed"
            /\ tx.db[i].wrote => tx.db[i].visible
            /\ ~tx.db[i].pending
       /\ tx.raised = "none"
       /\ tx.returned = tx.result
       /\ tx.returned # "nothing"

\* a call over every database wrote on each of them, returned True, and is
\* over with every transaction committed
C11_Witness ==
  /\ tx.pc = "done"
  /\ tx.mode = "decorator"
  /\ Len(tx.db) = NumDbs
  /\ tx.returned = "True"
  /\ \A i \in DOMAIN tx.db :
       tx.db[i].wrote /\ tx.db[i].visible /\ tx.db[i].ended = "committed"

(***************************************************************************)
(* C12 (SpecTx): the decorator over several databases ends its             *)
(* transactions one after another in declared order (while it is at        *)
(* database k, exactly the databases before k have been ended); when the   *)
(* commit on database k fails, the databases before k stay committed with  *)
(* their writes visible, every database after k is rolled back with no     *)
(* write visible, and the commit error is raised to the caller, who gets   *)
(* no return value.                                                        *)
(***************************************************************************)
C12_CommitFailure ==
  tx.mode = "decorator"
    => /\ tx.pc = "exit"
            => \A i \in DOMAIN tx.db : (tx.db[i].ended # "none") <=> (i < tx.k)
       /\ \A k \in DOMAIN tx.db :
            (tx.pc \in {"finally", "done"} /\ tx.db[k].ended = "commit failed")
              => /\ \A i \in 1..(k - 1) :
                      /\ tx.db[i].ended = "committed"
                      /\ tx.db[i].wrote => tx.db[i].visible
                 /\ \A i \in (k + 1)..Len(tx.db) :
                      /\ tx.db[i].ended \in {"rolled back", "rollback failed"}
                      /\ tx.db[i].ended = "rolled back"
                           => ~tx.db[i].visible /\ ~tx.db[i].pending
                 /\ tx.raised = "CommitError"
                 /\ tx.returned = "nothing"

\* the body wrote on every database and returned, the first database was
\* committed, the commit on the second failed and the last was rolled back
C12_Witness ==
  /\ tx.pc = "done"
  /\ tx.mode = "decorator"
  /\ Len(tx.db) = NumDbs
  /\ \A i \in DOMAIN tx.db : tx.db[i].wrote
  /\ tx.db[1].ended = "committed" /\ tx.db[1].visible
  /\ tx.db[2].ended = "commit failed"
  /\ tx.db[Len(tx.db)].ended = "rolled back"
  /\ tx.raised = "CommitError"

(***************************************************************************)
(* C13 (SpecTx): once a call of a wrapped function or of a                 *)
(* ManagedTransaction block is over, whether it returned or raised, every  *)
(* connection it acquired is back in its pool (none is still held, so      *)
(* pool.available is what it was before the call) and none of its ambient  *)
(* bindings remains (get_connection finds no active transaction).          *)
(***************************************************************************)
C13_ReleasedAfterExit ==
  tx.pc = "done" => \A i \in DOMAIN tx.db : ~tx.db[i].held /\ ~tx.db[i].bound

(***************************************************************************)
(* C14 (SpecPool): ambient bindings are per task. The binding of a task in *)
(* its transaction is its own context throughout, whatever other tasks     *)
(* bind or clear meanwhile; get_connection in a task returns that task's   *)
(* own context, or fails with 'No active transaction' in a task that is in *)
(* no transaction, and never returns another task's context; every write   *)
(* of concurrent wrapped functions on the same database goes through the   *)
(* writer's own connection, and every call that ended without error has    *)
(* its write committed.                                                    *)
(***************************************************************************)
C14_TaskLocalBindings ==
  /\ \A t \in PoolTaskIds :
       /\ pool.task[t].pc \in InTransaction
            => pool.reg[t] # 0 /\ pool.reg[t] = pool.task[t].conn
       /\ pool.task[t].pc \notin InTransaction => pool.reg[t] = 0
       /\ pool.task[t].got.error = "none" => pool.task[t].got.ctx = pool.task[t].conn
       /\ (pool.task[t].pc = "idle" /\ pool.task[t].got # NoLookup)
            => pool.task[t].got.error = "No active transaction"
       /\ pool.task[t].pc \in {"wrote", "committed", "releasing", "done"}
            => pool.task[t].got.error = "none" \/ pool.task[t].err # "none"
       /\ (pool.task[t].pc \in {"committed", "releasing", "done"} /\ pool.task[t].err = "none")
            => t \in pool.committed
  /\ \A c \in DOMAIN pool.conn :
       pool.conn[c].pending
         \subseteq {t \in PoolTaskIds : pool.task[t].conn = c /\ pool.task[t].pc = "wrote"}

\* two tasks are bound at once, each to its own connection, one of them
\* with its write committed, while a third task outside any transaction
\* looked up the database and found no active transaction
C14_Witness ==
  \E t1, t2, t3 \in PoolTaskIds :
    /\ pool.task[t1].pc = "committed" /\ t1 \in pool.committed
    /\ pool.task[t2].pc = "wrote" /\ pool.conn[pool.task[t2].conn].pending = {t2}
    /\ pool.reg[t1] # pool.reg[t2]
    /\ pool.task[t3].pc = "idle"
    /\ pool.task[t3].got.error = "No active transaction"

(***************************************************************************)
(* C16 (SpecPool): in the AsyncConnectionPool the connections in use are   *)
(* never more than pool_size, available plus in use is pool_size, the      *)
(* connections in use are exactly those of the tasks between the return of *)
(* their acquire and their release, and no two such tasks were given the   *)
(* same connection.                                                        *)
(***************************************************************************)
C16_PoolExclusive ==
  /\ in_use_count(pool) <= pool_size
  /\ available(pool) + in_use_count(pool) = pool_size
  /\ pool.permits \in 0..pool_size
  /\ \A t \in PoolTaskIds :
       pool.task[t].pc \in Holding
         => /\ pool.task[t].conn \in DOMAIN pool.conn
            /\ pool.conn[pool.task[t].conn].in_use
  /\ \A t, u \in PoolTaskIds :
       (t # u /\ pool.task[t].pc \in Holding /\ pool.task[u].pc \in Holding)
         => pool.task[t].conn # pool.task[u].conn
  /\ in_use_count(pool) = Cardinality({t \in PoolTaskIds : pool.task[t].pc \in Holding})

\* every connection is in use, each by another task, and a further task
\* waits for a permit
C16_Witness ==
  /\ available(pool) = 0
  /\ Cardinality({pool.task[t].conn : t \in {u \in PoolTaskIds : pool.task[u].pc \in Holding}})
       = pool_size
  /\ \E t \in PoolTaskIds : pool.task[t].pc = "waiting"

(***************************************************************************)
(* C17 (SpecPool): an acquire that ends in ConnectionPoolExhaustedError    *)
(* after waiting does so only while no permit is free (no holder released  *)
(* before the deadline: with a permit free the waiter obtains a connection *)
(* instead), and it leaves the pool as it was: no permit consumed, no      *)
(* connection marked in use. Once every holder has released, available is  *)
(* pool_size again and every permit is back.                               *)
(***************************************************************************)
C17_ExhaustedAcquire ==
  [][/\ \A t \in PoolTaskIds :
          (pool.task[t].pc = "waiting" /\ pool'.task[t].pc = "done")
            => /\ pool'.task[t].err = "ConnectionPoolExhaustedError"
               /\ pool.permits = 0
               /\ pool'.permits = pool.permits
               /\ pool'.conn = pool.conn
     /\ \A t \in PoolTaskIds :
          (pool.task[t].pc = "waiting" /\ pool.permits > 0)
            => pool'.task[t].pc \in {"waiting", "permit"}
     /\ (\A t \in PoolTaskIds : pool'.task[t].pc \in {"idle", "done"})
          => available(pool') = pool_size /\ pool'.permits = pool_size]_vars

\* one waiter gave up with ConnectionPoolExhaustedError, another waiter got
\* a connection after a holder released, and with every call over the pool
\* is whole again
C17_Witness ==
  /\ \E t \in PoolTaskIds : pool.task[t].err = "ConnectionPoolExhaustedError"
  /\ \E t \in PoolTaskIds : pool.task[t].waited /\ pool.task[t].err = "none"
  /\ \A t \in PoolTaskIds : pool.task[t].pc = "done"
  /\ available(pool) = pool_size

(***************************************************************************)
(* C15 (SpecRO): in a read-only context, SQLite's or MySQL's, a statement  *)
(* whose leading keyword (after leading whitespace, in either case) is     *)
(* INSERT, UPDATE, DELETE, CREATE, DROP, ALTER or TRUNCATE, issued through *)
(* any SQL-executing operation of the context, raises the readonly error   *)
(* and nothing is passed to the connection.                                *)
(***************************************************************************)
C15_ReadonlyBlocksWrites ==
  (/\ ro.readonly
   /\ ro.call # NoCall
   /\ upper(Head(lstrip(ro.call.sql))) \in write_keywords)
    => ro.result = "ReadOnlyTransactionError" /\ ro.sent = <<>>

(***************************************************************************)
(* C18 (SpecSched): while a dispatcher runs, every scheduled instant t of  *)
(* an enabled definition with a valid expression and allow_overlap = true  *)
(* that the clock reaches gets its row (scheduled_time = t, PENDING), for  *)
(* every allowed poll_interval_seconds and max_sleep_seconds: it has the   *)
(* row once the dispatcher has polled at or after t (a later poll never    *)
(* emits it: a poll emits the latest instant only), and so it gets the row *)
(* eventually; and a dispatcher that polled 5 s after an instant with      *)
(* poll_interval 60 has emitted the row of that instant.                   *)
(***************************************************************************)
C18_NoInstantSkipped ==
  /\ [](sch.pc = "sleep"
         => \A k \in 0..MaxInstants :
              (/\ (k * 60) % sch.interval = 0
               /\ k * 60 >= sch.start
               /\ k * 60 <= sch.clock)
                => k * 60 \in sch.rows)
  /\ []((/\ sch.pc = "sleep"
         /\ sch.config.poll_interval_seconds = 60
         /\ sch.clock - get_prev(sch.clock, sch.interval) = 5)
          => get_prev(sch.clock, sch.interval) \in sch.rows)
  /\ \A k \in 0..(MaxInstants - 2) :
       []((/\ (k * 60) % sch.interval = 0
           /\ k * 60 >= sch.start
           /\ sch.clock >= k * 60)
            => <>(k * 60 \in sch.rows))

(***************************************************************************)
(* C19 (SpecRun): when the handler returns a result the execution goes     *)
(* from RUNNING to SUCCESS with its result stored and finished_at set, its *)
(* retry_count unchanged, and execute returns true; and every PENDING      *)
(* execution in the table of a running worker pool whose handlers succeed  *)
(* ends in SUCCESS.                                                        *)
(***************************************************************************)
C19_SuccessPath ==
  /\ [][\A id \in Ids(table) :
          (table[id].status # SUCCESS /\ table'[id].status = SUCCESS)
            => /\ table[id].status = RUNNING
               /\ table'[id].result /\ table'[id].finished_at
               /\ table'[id].retry_count = table[id].retry_count
               /\ last' = "true"]_vars
  /\ \A id \in 1..RunRows :
       []((id \in Ids(table) /\ table[id].status = PENDING)
            => <>(id \in Ids(table) /\ table[id].status = SUCCESS))

(***************************************************************************)
(* C20 (SpecLoop): in one dispatcher iteration an error raised while one   *)
(* definition is processed (unparsable expression, interval too short,     *)
(* failed insert, any other exception) is contained: _process_cron_job     *)
(* returns normally for every definition, the definitions of the loaded    *)
(* list are processed one after another in list order, and at the end of   *)
(* the iteration every definition has been processed and every definition  *)
(* without an error has its row.                                           *)
(***************************************************************************)
C20_ErrorIsolation ==
  /\ loop.raised = "none"
  /\ loop.processed = [k \in 1..(loop.i - 1) |-> k]
  /\ loop.pc = "sleep"
       => /\ Len(loop.processed) = Len(loop.jobs)
          /\ loop.emitted = {k \in DOMAIN loop.jobs : loop.jobs[k] = "none"}

\* an iteration over a full list is over: the first definition ran into a
\* parse error, a later one into an exception outside the dispatcher's own
\* classes, and the last definition, free of errors, was emitted
C20_Witness ==
  /\ loop.pc = "sleep"
  /\ Len(loop.jobs) = MaxJobs
  /\ loop.jobs[1] = "CronParseError"
  /\ loop.jobs[2] = "RuntimeError"
  /\ loop.jobs[MaxJobs] = "none"
  /\ MaxJobs \in loop.emitted

(***************************************************************************)
(* C21 (SpecWorker): after stop() on a running WorkerPool no new poll      *)
(* cycle starts (the cycle in progress may still assign what it read);     *)
(* start() returns only once every executor task of the pool is over or    *)
(* shutdown_timeout_seconds has run out, tasks are cancelled only at that  *)
(* timeout, and exactly the tasks still unfinished then; an execution that *)
(* was in flight at stop() is SUCCESS when start() returns, provided its   *)
(* handler returned before the timeout; and after stop() start() does      *)
(* return.                                                                 *)
(***************************************************************************)
C21_GracefulShutdown ==
  /\ [][/\ wpool.stop_event
             => ~(wpool.pc = "while" /\ wpool'.pc \in {"read", "assign", "sleep"})
        /\ (wpool.pc # "returned" /\ wpool'.pc = "returned")
             => /\ wpool.stop_event
                /\ Unfinished = {} \/ wpool.elapsed
                /\ wpool'.cancelled = Unfinished
                /\ \A t \in wpool.running_tasks :
                     task'[t] = IF t \in Unfinished THEN IdleTask ELSE task[t]
        /\ \A t \in WorkerSlots :
             (t \in Unfinished /\ t \notin Unfinished')
               => \/ wpool'.pc = "returned" /\ wpool.elapsed
                  \/ wpool' = [wpool EXCEPT !.holding = @ \ {t}]]_vars
  /\ [](wpool.pc = "returned"
          => /\ Unfinished = {}
             /\ ~wpool.running
             /\ \A id \in wpool.at_stop :
                  (~wpool.elapsed \/ hist[id].scen = "ok") => table[id].status = SUCCESS)
  /\ (wpool.stop_event ~> wpool.pc = "returned")

\* start() has returned without the timeout: the executions in flight at
\* stop(), one of them only polled by then, are SUCCESS, and a row that no
\* cycle read before stop() is still PENDING
C21_Witness ==
  /\ wpool.pc = "returned"
  /\ ~wpool.elapsed
  /\ Cardinality(wpool.at_stop) = 2
  /\ \A id \in wpool.at_stop : table[id].status = SUCCESS
  /\ \E id \in Ids(table) : table[id].status = PENDING

(***************************************************************************)
(* C25 (SpecWorker): in every reachable state the executor tasks of one    *)
(* WorkerPool that are not over, the tasks in _running_tasks and the slots *)
(* of the semaphore in use are each at most pool_size; a poll cycle reads  *)
(* at most min(pool_size - in_flight, claim_batch_size) rows, in_flight    *)
(* being len(_running_tasks) at the start of the cycle, and a cycle that   *)
(* starts with in_flight >= pool_size reads nothing.                       *)
(***************************************************************************)
C25_BoundedInFlight ==
  /\ [](/\ Cardinality(Unfinished) <= wpool.config.pool_size
        /\ Cardinality(wpool.running_tasks) <= wpool.config.pool_size
        /\ Cardinality(wpool.holding) <= wpool.config.pool_size
        /\ Len(wpool.jobs)
             <= Min(wpool.config.pool_size - wpool.in_flight,
                    wpool.config.claim_batch_size))
  /\ [][/\ (wpool.pc = "while" /\ wpool'.pc \in {"read", "sleep"})
             => /\ wpool'.in_flight = Cardinality(wpool.running_tasks)
                /\ wpool'.in_flight >= wpool.config.pool_size
                     => wpool'.pc = "sleep" /\ wpool'.jobs = <<>>
        /\ wpool'.jobs # wpool.jobs
             => \/ wpool.pc = "read"
                \/ wpool.pc = "assign" /\ wpool'.jobs = Tail(wpool.jobs)
                \/ wpool.pc = "while" /\ wpool'.jobs = <<>>
        /\ (wpool.pc = "read" /\ wpool'.pc # "read")
             => /\ \A k \in DOMAIN wpool'.jobs : table[wpool'.jobs[k].id].status = PENDING
                /\ Len(wpool'.jobs) = Min(wpool.limit, Cardinality(get_pending_executions(table)))]_vars

\* a cycle of a pool of MaxWorkers found every worker in use and read
\* nothing although rows were PENDING
C25_Witness ==
  /\ wpool.pc = "sleep"
  /\ wpool.config.pool_size = MaxWorkers
  /\ wpool.in_flight = wpool.config.pool_size
  /\ Cardinality(Unfinished) = wpool.config.pool_size
  /\ wpool.limit = 0
  /\ get_pending_executions(table) # {}

(***************************************************************************)
(* C22 (SpecLife): after stop() on a running Dispatcher a sleep in         *)
(* progress ends without waiting for its timeout, no iteration starts      *)
(* after the one in progress, and start() returns with is_running false;   *)
(* stop() on a dispatcher that is not running changes nothing, and start() *)
(* on a dispatcher that is running returns without entering a second loop. *)
(***************************************************************************)
C22_DispatcherLifecycle ==
  /\ [][/\ dlife.stop_event
             => /\ dlife'.iterations = dlife.iterations
                /\ dlife.pc = "sleep" => dlife'.left = dlife.left
                /\ dlife'.pc = dlife.pc
                     \/ <<dlife.pc, dlife'.pc>>
                          \in {<<"iteration", "sleep">>, <<"sleep", "while">>,
                               <<"while", "returned">>}
        /\ (dlife'.last # dlife.last /\ dlife'.last = "stop: not running")
             => ~dlife.running /\ dlife' = [dlife EXCEPT !.last = "stop: not running"]
        /\ (dlife'.last # dlife.last /\ dlife'.last = "stop: stopping")
             => dlife.running /\ ~dlife'.running /\ dlife'.stop_event
        /\ (dlife'.last # dlife.last /\ dlife'.last = "start: already running")
             => dlife.running /\ dlife' = [dlife EXCEPT !.last = "start: already running"]]_vars
  /\ [](/\ dlife.loops <= 1
        /\ dlife.pc = "returned" => ~dlife.running /\ dlife.stop_event)
  /\ (dlife.stop_event ~> (dlife.pc = "returned" /\ ~dlife.running))

\* stop() found the dispatcher in a sleep with time left; the sleep ended
\* with that time left, start() has returned, and a later stop() found the
\* dispatcher not running
C22_Witness ==
  /\ dlife.pc = "returned"
  /\ ~dlife.running
  /\ dlife.left = MaxSleepTicks
  /\ dlife.iterations = 1
  /\ dlife.last = "stop: not running"

(***************************************************************************)
(* C23 (SpecAdmin): the admin retry call moves an execution to PENDING     *)
(* only when its status is FAILED or TIMEOUT (answer 200, nothing else of  *)
(* the table changes); for an execution in PENDING, RUNNING or SUCCESS it  *)
(* answers 400 with the invalid-status error and for an unknown id 404     *)
(* with not-found, and in both cases the table is left unchanged.          *)
(***************************************************************************)
C23_AdminRetry ==
  [][\A job_id \in 1..(Len(table) + 1) :
       AdminRetryCall(job_id)
         => IF job_id \notin Ids(table)
            THEN last' = "404 JobNotFoundError" /\ table' = table
            ELSE IF table[job_id].status \in {FAILED, TIMEOUT}
                 THEN /\ last' = "200 JobResponse"
                      /\ table' = [table EXCEPT ![job_id].status = PENDING]
                 ELSE /\ table[job_id].status \in {PENDING, RUNNING, SUCCESS}
                      /\ last' = "400 JobStatusError"
                      /\ table' = table]_vars

\* a retry of a TIMEOUT execution was answered 200 and the row is PENDING,
\* after a call that was refused: the other row is RUNNING or SUCCESS
C23_Witness ==
  /\ last = "200 JobResponse"
  /\ nAdmin = 2
  /\ \E id \in Ids(table) :
       table[id].status = PENDING /\ table[id].error_message = "timed out"
  /\ \E id \in Ids(table) : table[id].status \in {RUNNING, SUCCESS}

(***************************************************************************)
(* C24 (SpecQueue): adapter.complete(msg) is invoked only for a message    *)
(* whose PENDING execution row has been inserted, so a message whose       *)
(* insert failed is never completed; adapter.abandon(msg) is invoked for   *)
(* every message whose processing raised an error, and for no other; and  *)
(* an error on one message does not stop the processing of the following   *)
(* messages: the loop ends only after stop().                              *)
(***************************************************************************)
C24_QueueAck ==
  /\ queue.complete_calls \subseteq queue.rows
  /\ \A m \in Messages :
       /\ m \in queue.abandon_calls => queue.raised[m] # "none"
       /\ (queue.raised[m] # "none" /\ (m < queue.received \/ queue.pc # "except"))
            => m \in queue.abandon_calls
  /\ queue.pc \in {"returned", "raised"} => queue.stopped

(***************************************************************************)
(* C26 (Spec): the status write of a failed or timed-out attempt and the   *)
(* reset to PENDING are one transaction.  The transaction opens on a       *)
(* RUNNING row and increments retry_count; while it is open no dispatcher  *)
(* overlap check or insert, no poll or claim or status write of another    *)
(* executor and no admin retry takes place; when retry budget remains it   *)
(* commits the row as PENDING with the incremented retry_count.  So a      *)
(* committed FAILED or TIMEOUT row is one whose budget was used up.        *)
(***************************************************************************)
C26_AtomicFailAndReset ==
  /\ [](lock = 0 => \A id \in Ids(table) :
          table[id].status \in {FAILED, TIMEOUT}
            => table[id].retry_count >= max_retry(table[id].job_id))
  /\ [][/\ (lock = 0 /\ lock' # 0)
             => /\ table[task[lock'].id].status = RUNNING
                /\ table'[task[lock'].id].status \in {FAILED, TIMEOUT}
                /\ table'[task[lock'].id].retry_count
                     = table[task[lock'].id].retry_count + 1
        /\ (lock # 0 /\ lock' # 0)
             => /\ table' = table /\ nAdmin' = nAdmin
                /\ \A d \in DOMAIN disp : disp'[d] = disp[d] \/ disp[d].pc = "idle"
                /\ \A t \in DOMAIN task :
                     task'[t] = task[t] \/ (t # lock /\ task[t].pc = "claimed")
        /\ (lock # 0 /\ lock' = 0)
             => LET id == task[lock].id
                IN  /\ disp' = disp /\ nAdmin' = nAdmin
                    /\ \A t \in DOMAIN task : t # lock => task'[t] = task[t]
                    /\ table[id].status \in {FAILED, TIMEOUT}
                    /\ task[lock].retry_count + 1 < max_retry(table[id].job_id)
                         => table' = [table EXCEPT ![id].status = PENDING]
                    /\ task[lock].retry_count + 1 >= max_retry(table[id].job_id)
                         => table' = table]_vars

\* an executor holds the uncommitted TIMEOUT write of a row with budget
\* left, while a dispatcher stands before its overlap check and another
\* executor, which polled the same row, stands before its claim
C26_Witness ==
  /\ lock # 0
  /\ table[task[lock].id].status = TIMEOUT
  /\ task[lock].retry_count + 1 < max_retry(table[task[lock].id].job_id)
  /\ \E d \in DOMAIN disp : disp[d].pc = "check"
  /\ \E t \in DOMAIN task : t # lock /\ task[t].pc = "polled" /\ task[t].id = task[lock].id

C28_BoundedAttempts ==
  /\ [](\A id \in Ids(table) :
          table[id].retry_count + (IF table[id].status \in {RUNNING, SUCCESS} THEN 1 ELSE 0)
            <= max_retry(table[id].job_id))
  /\ [][\A id \in Ids(table) :
          (lock = 0 /\ table[id].status \in {SUCCESS, FAILED, TIMEOUT})
            => table'[id] = table[id]]_vars
  /\ \A id \in 1..TermRows :
       (id \in Ids(table) /\ table[id].status = PENDING)
         ~> (id \in Ids(table) /\ lock = 0
               /\ table[id].status \in {SUCCESS, FAILED, TIMEOUT})

(***************************************************************************)
(* C29 (SpecFault): a RUNNING row is changed only by the executor task     *)
(* that claimed it.  When that task has ended without writing a status     *)
(* (crash, cancellation, failing status write) the row has no executor:    *)
(* from then on no step of a worker pool or a dispatcher and no admin      *)
(* retry changes it, it stays RUNNING and no executor claims it again.     *)
(***************************************************************************)
C29_RunningRowKeptByClaimer ==
  [][\A id \in Ids(table) :
       /\ (table[id].status = RUNNING /\ table'[id] # table[id])
            => \E t \in DOMAIN task :
                 /\ task[t].id = id /\ task[t].pc \in {"claimed", "handler"}
                 /\ task'[t] # task[t]
       /\ (/\ table[id].status = RUNNING
           /\ \A t \in DOMAIN task :
                ~(task[t].id = id /\ task[t].pc \in {"claimed", "handler"}))
            => /\ table'[id] = table[id]
               /\ \A t \in DOMAIN task :
                    ~(task'[t].id = id /\ task'[t].pc \in {"claimed", "handler"})]_vars

\* the executor of a RUNNING row ended without a status write; afterwards
\* another executor, which had polled the row while it was PENDING, tried to
\* claim it and lost
C29_Witness ==
  /\ last = "false: not claimed"
  /\ \E id \in Ids(table) :
       /\ table[id].status = RUNNING
       /\ hist[id].scen = "other"
       /\ \A t \in DOMAIN task : task[t].id # id

(***************************************************************************)
(* C30 (SpecFault): when the handler returned and the write of the SUCCESS *)
(* status raises, the executor takes the failure path: the RUNNING row is  *)
(* written FAILED with retry_count incremented, and the transaction        *)
(* commits it as PENDING when retry_count + 1 < max_retry (the count the   *)
(* executor read) and as FAILED otherwise; execute returns false.          *)
(***************************************************************************)
C30_CompleteFailureTakesFailPath ==
  [][\A t \in DOMAIN task :
       LET id == task[t].id
       IN  /\ (\E error \in WriteErrors : CompleteFails(t, error))
                => /\ table[id].status = RUNNING
                   /\ table'[id].status = FAILED
                   /\ table'[id].retry_count = table[id].retry_count + 1
                   /\ task'[t].pc = "failing"
           /\ (task[t].pc = "failing" /\ lock = t /\ lock' = 0)
                => /\ table'[id].status
                        = IF task[t].retry_count + 1 < max_retry(table[id].job_id)
                          THEN PENDING ELSE FAILED
                   /\ table'[id].retry_count = table[id].retry_count
                   /\ task'[t] = IdleTask
                   /\ last' = "false: failed"]_vars

\* the handler of an execution is being invoked a second time although every
\* invocation so far returned successfully
C30_Witness ==
  \E id \in Ids(table) :
    /\ hist[id].scen = "ok"
    /\ hist[id].invoked = 2
    /\ table[id].status = RUNNING
    /\ \E t \in DOMAIN task : task[t].id = id /\ task[t].pc = "handler"

(***************************************************************************)
(* C31 (SpecResolve): for an execution whose handler_name is not           *)
(* registered or whose handler_params do not deserialize, the handler is   *)
(* never invoked and no attempt ends otherwise than FAILED; every attempt  *)
(* leaves an error message naming the cause, "Handler not found" or        *)
(* "Invalid handler_params"; the attempt increments retry_count and the    *)
(* retry rule is applied as for a handler failure: back to PENDING when    *)
(* retry_count + 1 < max_retry, FAILED otherwise; execute returns false.   *)
(***************************************************************************)
C31_UnresolvedHandlerFails ==
  /\ [](\A id \in Ids(table) :
          LET def == cron[table[id].job_id]
          IN  (~def.registered \/ def.handler_params \in {"{id", "[1]", "{\"id\": \"x\"}"})
                => /\ hist[id].invoked = 0
                   /\ \A t \in DOMAIN task : ~(task[t].id = id /\ task[t].pc = "handler")
                   /\ table[id].status \in {PENDING, RUNNING, FAILED}
                   /\ table[id].retry_count > 0
                        => table[id].error_message
                             = IF def.registered THEN "Invalid handler_params"
                               ELSE "Handler not found")
  /\ [][\A t \in DOMAIN task :
          LET id == task[t].id
          IN  /\ (task[t].pc = "claimed" /\ task'[t].pc = "failing")
                   => /\ table'[id].status = FAILED
                      /\ table'[id].retry_count = table[id].retry_count + 1
              /\ (task[t].pc = "failing" /\ lock = t /\ lock' = 0)
                   => /\ table'[id].status
                           = IF task[t].retry_count + 1 < max_retry(table[id].job_id)
                             THEN PENDING ELSE FAILED
                      /\ task'[t] = IdleTask
                      /\ last' = "false: failed"]_vars

\* an execution of a registered handler whose params are a JSON array has
\* used up a budget of three attempts without an invocation
C31_Witness ==
  /\ lock = 0
  /\ \E id \in Ids(table) :
       /\ cron[table[id].job_id].registered
       /\ cron[table[id].job_id].handler_params = "[1]"
       /\ table[id].status = FAILED
       /\ table[id].retry_count = 3
       /\ table[id].error_message = "Invalid handler_params"
       /\ hist[id].invoked = 0

(***************************************************************************)
(* C32 (SpecExhaust): when the connection for the claim of an execution    *)
(* cannot be acquired, the task ends with the row as it was, PENDING with  *)
(* its retry_count, and without an invocation of the handler, and its      *)
(* semaphore slot is released; when the connection for the poll cannot be  *)
(* acquired the cycle ends with nothing changed; in both cases the loop    *)
(* goes on: a read ends in the assignment or the sleep, never in the end   *)
(* of the loop, and a sleep is followed by the next cycle unless stop()    *)
(* was called.                                                             *)
(***************************************************************************)
C32_PoolExhaustedKeepsPending ==
  /\ [][/\ \A t \in WorkerSlots :
             (/\ task[t].pc = "polled" /\ task'[t].pc = "idle"
              /\ table[task[t].id].status = PENDING
              /\ wpool'.pc # "returned")
               => /\ table' = table /\ hist' = hist
                  /\ wpool' = wpool
                  /\ last' = "ConnectionPoolExhaustedError: claim"
        /\ (wpool.pc = "read" /\ wpool'.pc # "read")
             => /\ wpool'.pc \in {"assign", "sleep"}
                /\ table' = table /\ hist' = hist /\ task' = task
                /\ wpool'.holding = wpool.holding
                /\ wpool'.running_tasks = wpool.running_tasks]_vars
  /\ \A t \in WorkerSlots :
       (t \in wpool.holding /\ task[t].pc = "idle") ~> (t \notin wpool.holding)
  /\ (wpool.pc = "read") ~> (wpool.pc \in {"assign", "sleep"})
  /\ (wpool.pc = "sleep") ~> (wpool.pc = "while" \/ wpool.stop_event)

\* after a claim that failed for want of a connection the slot is free
\* again, the task is gone from the in-flight set, and the next cycle has
\* read the same executions, still PENDING with retry_count 0 and no
\* invocation
C32_Witness ==
  /\ last = "ConnectionPoolExhaustedError: claim"
  /\ wpool.pc = "assign"
  /\ wpool.holding = {} /\ wpool.running_tasks = {}
  /\ \A id \in Ids(table) :
       table[id].status = PENDING /\ table[id].retry_count = 0 /\ hist[id].invoked = 0

\* the scheduled instants of an expression firing every `interval` seconds,
\* up to the reading `at` of the clock
InstantsUpTo(at, interval) == {i \in 0..at : i % interval = 0}

(***************************************************************************)
(* C33 (SpecSched): _should_run(job, now) answers (true, prev) exactly     *)
(* when now - prev <= poll_interval_seconds, prev being the latest         *)
(* scheduled instant of the expression up to the reading now of the clock, *)
(* and (false, none) otherwise; the poll emits the row of prev when the    *)
(* answer is true and no row otherwise, so that every emitted              *)
(* scheduled_time is a scheduled instant of the expression and not later   *)
(* than the poll that emitted it.                                          *)
(***************************************************************************)
C33_DueWithinPollInterval ==
  /\ [](LET r == should_run_at(sch.clock, sch.interval, sch.config)
            prevs == {i \in InstantsUpTo(sch.clock, sch.interval) :
                        \A j \in InstantsUpTo(sch.clock, sch.interval) : j <= i}
        IN  \A prev \in prevs :
              /\ r.run <=> (sch.clock - prev <= sch.config.poll_interval_seconds)
              /\ r.run => r.scheduled_time = prev
              /\ ~r.run => r.scheduled_time = 0)
  /\ [](\A s \in sch.rows :
          /\ s % sch.interval = 0
          /\ \E c \in sch.polled :
               s <= c /\ c - s <= sch.config.poll_interval_seconds)
  /\ [][(sch.pc = "poll" /\ sch'.pc = "sleep")
          => LET prevs == {i \in InstantsUpTo(sch.clock, sch.interval) :
                             \A j \in InstantsUpTo(sch.clock, sch.interval) : j <= i}
             IN  /\ prevs # {}
                 /\ \A prev \in prevs :
                      sch'.rows = IF sch.clock - prev <= sch.config.poll_interval_seconds
                                  THEN sch.rows \cup {prev}
                                  ELSE sch.rows]_vars

\* one dispatcher has polled inside a due window, emitting the instant it
\* polled after, and outside one, emitting nothing; one poll fell on the
\* far end of the window
C33_Witness ==
  /\ sch.pc = "sleep"
  /\ \E c \in sch.polled :
       /\ should_run_at(c, sch.interval, sch.config).run
       /\ c - get_prev(c, sch.interval) = sch.config.poll_interval_seconds
       /\ get_prev(c, sch.interval) \in sch.rows
       /\ get_prev(c, sch.interval) < c
  /\ \E c \in sch.polled : ~should_run_at(c, sch.interval, sch.config).run

(***************************************************************************)
(* C34 (SpecGate): in an iteration the dispatcher emits rows only for      *)
(* definitions that were enabled when the iteration loaded them, whose     *)
(* expression parses and whose successive instants are at least            *)
(* min_cron_interval_seconds apart; a definition that was disabled at the  *)
(* load, or does not parse, or is too frequent, gets no row in that        *)
(* iteration, whatever the admin API does to is_enabled meanwhile.         *)
(***************************************************************************)
C34_GatedEmission ==
  /\ [](\A j \in loop.emitted :
          /\ j \in loop.enabled
          /\ loop.defs[j].interval # 0
          /\ loop.defs[j].interval >= loop.config.min_cron_interval_seconds)
  /\ [][\A j \in 1..GateJobs :
          (\E row \in loop'.rows \ loop.rows : row[1] = j)
            => /\ j \in loop.enabled
               /\ loop.defs[j].interval # 0
               /\ loop.defs[j].interval >= loop.config.min_cron_interval_seconds]_vars

\* an iteration is through its list: it emitted a row for a definition
\* that has been disabled since the load, and none for a loaded definition
\* that is too frequent or does not parse, nor for the one that was
\* disabled at the load and has been enabled since
C34_Witness ==
  /\ loop.pc = "for" /\ loop.i > Len(loop.jobs)
  /\ \E j \in loop.emitted : ~loop.defs[j].is_enabled
  /\ \/ \E j \in loop.enabled \ loop.emitted :
          loop.defs[j].interval \in {0, 30}
     \/ \E j \in (1..GateJobs) \ loop.enabled : loop.defs[j].is_enabled

(***************************************************************************)
(* C35 (SpecEmit): an emission attempt for a (job_id, scheduled_time) that *)
(* already has a row leaves job_executions as it is: the row keeps its     *)
(* status, retry_count, started_at, finished_at and result, so a repeated  *)
(* poll inside the same due window never takes a RUNNING or terminal       *)
(* execution back to PENDING.                                              *)
(***************************************************************************)
C35_RepeatedEmissionKeepsRow ==
  [][\A d \in DOMAIN disp :
       (/\ disp[d].pc = "create" /\ disp'[d].pc = "idle"
        /\ check_execution_exists(table, disp[d].job, disp[d].sched) # {})
         => /\ table' = table
            /\ \A id \in check_execution_exists(table, disp[d].job, disp[d].sched) :
                 /\ table'[id].status = table[id].status
                 /\ table'[id].retry_count = table[id].retry_count
                 /\ table'[id].started_at = table[id].started_at
                 /\ table'[id].finished_at = table[id].finished_at
                 /\ table'[id].result = table[id].result]_vars

\* the attempt found the row of its instant, which a worker had claimed or
\* brought to a terminal status, and the row is still what the worker made
\* of it
C35_Witness ==
  /\ last = "true: existed"
  /\ \E id \in Ids(table) : table[id].status \in {RUNNING, SUCCESS, FAILED, TIMEOUT}
  /\ \E id \in Ids(table) : table[id].status = RUNNING /\ table[id].started_at
  /\ \E id \in Ids(table) : table[id].status = SUCCESS /\ table[id].result

(***************************************************************************)
(* C36 (SpecSleep): for every list of definitions and every accepted       *)
(* configuration the sleep _calculate_next_sleep returns is not below      *)
(* poll_interval_seconds; for a list of one definition it is the sleep of  *)
(* the dispatcher with that definition.                                    *)
(***************************************************************************)
C36_SleepAtLeastPollInterval ==
  sch.pc = "returned"
    => /\ sch.sleep >= sch.config.poll_interval_seconds
       /\ (Len(sch.jobs) = 1 /\ sch.jobs[1] # 0)
            => sch.sleep = calculate_next_sleep(sch.at, sch.jobs[1], sch.config)

\* the next instant of a definition of the list is nearer than
\* poll_interval_seconds and max_sleep_seconds, and the sleep returned is
\* poll_interval_seconds
C36_Witness ==
  /\ sch.pc = "returned"
  /\ Len(sch.jobs) = 2
  /\ \E i \in DOMAIN sch.jobs :
       /\ sch.jobs[i] # 0
       /\ get_next(sch.at, sch.jobs[i]) - sch.at < sch.config.poll_interval_seconds
       /\ get_next(sch.at, sch.jobs[i]) - sch.at < sch.config.max_sleep_seconds
  /\ sch.sleep = sch.config.poll_interval_seconds

(***************************************************************************)
(* C37 (SpecSleep): for every list of definitions and every accepted       *)
(* configuration (poll_interval_seconds in 10..600, max_sleep_seconds in   *)
(* 60..600) the sleep _calculate_next_sleep returns does not exceed        *)
(* max_sleep_seconds.                                                      *)
(***************************************************************************)
C37_SleepAtMostMaxSleep ==
  sch.pc = "returned" => sch.sleep <= sch.config.max_sleep_seconds

(***************************************************************************)
(* C38 (SpecBegin): pool slots are conserved. Whenever no task is in a     *)
(* transaction on the database or on its way into or out of one, every     *)
(* connection of the pool is available and every permit is back, also      *)
(* after transactions whose BEGIN failed with the connection acquired, so  *)
(* that failures to open a transaction do not use the pool up.             *)
(***************************************************************************)
C38_PoolSlotsConserved ==
  (\A t \in PoolTaskIds : pool.task[t].pc \in {"idle", "done"})
    => available(pool) = pool_size /\ pool.permits = pool_size

(***************************************************************************)
(* C39 (SpecWorker): the poll loop never blocks on its semaphore. A task   *)
(* holds its permit only while it is in the in-flight set (the permit is   *)
(* released before the done callback removes the task), a cycle reads at   *)
(* most pool_size - in_flight executions, and so at every acquire of       *)
(* _poll_and_assign a permit is free for the job at hand and for each one  *)
(* still to assign; the permit of every task is released once the task has *)
(* ended, by return or by cancellation, and none is held when start()      *)
(* has returned.                                                           *)
(***************************************************************************)
C39_AcquireNeverBlocks ==
  /\ [](wpool.pc # "off" => wpool.holding \subseteq wpool.running_tasks)
  /\ [](wpool.pc = "assign"
         => /\ wpool.jobs # <<>>
            /\ Len(wpool.jobs) <= wpool.limit
            /\ wpool.limit <= wpool.config.pool_size - wpool.in_flight
            /\ Cardinality(wpool.holding) + Len(wpool.jobs) <= wpool.config.pool_size)
  /\ [](wpool.pc = "returned" => wpool.holding = {})
  /\ \A t \in WorkerSlots :
       (t \in wpool.holding /\ task[t].pc = "idle") ~> (t \notin wpool.holding)

\* the loop is at an acquire of a cycle that counted one task in flight;
\* that task has released its permit since and is still in the in-flight
\* set
C39_Witness ==
  /\ wpool.pc = "assign"
  /\ wpool.in_flight = 1
  /\ wpool.holding = {}
  /\ wpool.running_tasks # {}
  /\ wpool.config.pool_size = MaxWorkers

\* the dict a worker reads from the handler_params of an execution:
\* json.loads(handler_params or '{}')
StoredParams(row) == IF row.handler_params.type = "str" THEN row.handler_params.value ELSE <<>>

(***************************************************************************)
(* C40 (SpecParams): a message with an explicit job_id gives one PENDING   *)
(* execution with that job_id and exactly the message's params, without a  *)
(* lookup of the definition; a message without job_id whose handler_name   *)
(* matches a definition gives one PENDING execution with the definition's  *)
(* id and the definition's stored handler_params overridden key by key by  *)
(* the message's params; a message without job_id and without a matching   *)
(* definition gives one PENDING execution with a null job_id and the       *)
(* message's params.                                                       *)
(***************************************************************************)
C40_QueueExecutionParams ==
  queue.pc = "processed"
    => LET m == queue.message
           matching == {j \in DOMAIN queue.cron_jobs :
                          queue.cron_jobs[j].handler_name = m.handler_name}
       IN  /\ queue.raised = "none"
           /\ Len(queue.rows) = 1
           /\ queue.rows[1].status = PENDING
           /\ m.job_id # 0
                => /\ queue.rows[1].job_id = m.job_id
                   /\ StoredParams(queue.rows[1]) = m.params
                   /\ queue.lookups = 0
           /\ (m.job_id = 0 /\ matching = {})
                => /\ queue.rows[1].job_id = 0
                   /\ StoredParams(queue.rows[1]) = m.params
           /\ \A j \in matching :
                m.job_id = 0
                  => LET stored == IF queue.cron_jobs[j].handler_params.type = "str"
                                   THEN queue.cron_jobs[j].handler_params.value
                                   ELSE <<>>
                     IN  /\ queue.rows[1].job_id = j
                         /\ StoredParams(queue.rows[1])
                              = [k \in DOMAIN stored \cup DOMAIN m.params |->
                                   IF k \in DOMAIN m.params THEN m.params[k] ELSE stored[k]]

====
